---- MODULE Spec2Model ----
(***************************************************************************)
(* Verification model of the eznas orchestrator: the config store          *)
(* (orchestrator/storage.py), the apply runner and dependency scheduler    *)
(* (orchestrator/converge/runner.py, services.py) and the media pipeline   *)
(* worker (orchestrator/pipeline/runner.py).                               *)
(*                                                                         *)
(* Specifications:                                                         *)
(*   Spec       one apply request driven through every stage of            *)
(*              ApplyRunner.run, with the environment failing stages.      *)
(*   SpecStore  one apply request, one credentials update of the operator  *)
(*              and the pipeline worker sharing the store.                 *)
(*   SpecConc   two apply requests served by two request threads.          *)
(*   SpecCrash  _atomic_write / _load_section with a crash at any point.   *)
(*   SpecLedger the worker loop, one listed torrent at a time, over a      *)
(*              ledger found on disk, next to a credentials update.        *)
(*   SpecEnsure the same config applied twice: the ensure and verify of    *)
(*              the qBittorrent, Radarr and Sonarr clients                 *)
(*              (orchestrator/clients) against the live services.          *)
(*   SpecStream one apply request and a consumer of its event stream       *)
(*              (stream_run_events of orchestrator/app.py).                *)
(*   SpecSecret ConfigRepository.ensure_secret between the caller's        *)
(*              load_state and save_state.                                 *)
(*   SpecPopulate  ProwlarrClient.ensure in several applies in a row: the  *)
(*              gate of the indexer auto-population.                       *)
(*   SpecValidate  run_validation over the service ports of a config.      *)
(*   SpecRetry  retry_request (orchestrator/clients/retry.py) over every   *)
(*              sequence of answers of the wrapped call.                   *)
(*   SpecDiff   compute_diff (orchestrator/converge/diff.py) over pairs of *)
(*              configs.                                                   *)
(*   SpecRemux  build_ffmpeg_command (orchestrator/pipeline/remux.py) over *)
(*              the stream listings of a file and the media policy.        *)
(*   SpecMigrate  _ensure_migrated over a legacy state.json, with a crash  *)
(*              of the process inside the migration.                       *)
(*   SpecRefresh  ProwlarrClient.ensure around the API key refresh after   *)
(*              an authentication failure.                                 *)
(*   SpecAuth   login, authenticated requests and logout over the          *)
(*              sessions of the auth section (orchestrator/auth.py).       *)
(***************************************************************************)
EXTENDS Integers, Sequences, FiniteSets, TLC

VARIABLES
    disk,       \* the state section files under ORCH_ROOT (secrets, services, runs, pipeline)
    stack,      \* stack.yaml: the persisted declarative config
    runner,     \* per request thread: position in ApplyRunner.run and its locals
    nextRunId,  \* source of fresh run ids (uuid4 never repeats)
    faults,     \* number of failures the environment has injected so far
    host,       \* the host: "healthy", "docker down" or "ports busy"
    operator,   \* the request thread serving POST /api/services/qbittorrent/credentials
    worker,     \* the pipeline worker process: ticks done and how the last one ended
    fs,         \* SpecCrash: the files of one section (target, tmp, corrupted)
    writer,     \* SpecCrash: position of the process in _atomic_write / _load_section
    remote,     \* SpecEnsure: the live settings of qBittorrent, Radarr and Sonarr
    ensured,    \* SpecEnsure: position in two applies in a row and the outcomes so far
    stream,     \* SpecStream: the consumer of GET /api/runs/{run_id}/events
    call        \* the function-level specifications: the inputs drawn and the results

vars == <<disk, stack, runner, nextRunId, faults, host, operator, worker, fs, writer,
          remote, ensured, stream, call>>

crashVars == <<fs, writer, remote, ensured>>

(***************************************************************************)
(* Bounds of the model.                                                    *)
(***************************************************************************)
\* failures (failed stage, raised exception, failed client) injected per behaviour
MaxFaults == 2
\* worker ticks per behaviour
MaxTicks == 1
\* torrents the worker loop handles per behaviour, one listed torrent at a time
MaxChecks == 2
\* SpecSecret: values the secret generator hands out at most
MaxGenerated == 3
\* SpecPopulate: applies in a row
MaxApplies == 3
\* credential updates the operator posts per behaviour
MaxOperatorCalls == 1

(***************************************************************************)
(* Program constants.                                                      *)
(***************************************************************************)
MAX_RUN_HISTORY == 20

SERVICE_DEPENDENCY_ORDER ==
    <<"qbittorrent", "radarr", "sonarr", "prowlarr", "jellyfin", "jellyseerr", "pipeline">>

ServiceNames == {SERVICE_DEPENDENCY_ORDER[i] : i \in 1..Len(SERVICE_DEPENDENCY_ORDER)}

\* "service X depends on these services being configured first"
SERVICE_DEPENDENCIES(s) ==
    CASE s = "qbittorrent" -> {}
      [] s = "radarr"      -> {"qbittorrent"}
      [] s = "sonarr"      -> {"qbittorrent"}
      [] s = "prowlarr"    -> {"radarr", "sonarr"}
      [] s = "jellyfin"    -> {}
      [] s = "jellyseerr"  -> {"jellyfin", "radarr", "sonarr"}
      [] s = "pipeline"    -> {}
      [] OTHER             -> {}

\* ServiceConfigurator.clients: pipeline has no client
ClientNames == {"qbittorrent", "radarr", "sonarr", "prowlarr", "jellyseerr", "jellyfin"}

\* the iteration order of service_configs in _wait_for_services
WAIT_ORDER == <<"qbittorrent", "radarr", "sonarr", "prowlarr", "jellyseerr", "jellyfin">>

_STATE_SECTIONS == {"secrets", "services", "runs", "pipeline"}

(***************************************************************************)
(* The store: section files and the load_state / save_state pair.          *)
(***************************************************************************)
ArrClients == {"radarr", "sonarr", "prowlarr"}
SecretKeys == {"qbittorrent.password"} \cup {a \o ".api_key" : a \in ArrClients}
Hashes == {"h1", "h2", "h3"}

EmptyData(section) ==
    CASE section = "secrets"  -> [k \in SecretKeys |-> 0]
      [] section = "services" -> {}
      [] section = "runs"     -> <<>>
      [] section = "pipeline" -> [h \in Hashes |-> "absent"]

NoSection(section) == [exists |-> FALSE, data |-> EmptyData(section)]

\* _load_section: None when the file does not exist
_load_section(d, section) ==
    IF d[section].exists THEN d[section] ELSE NoSection(section)

\* load_state: compose all section files into one dict
load_state(d) == [s \in _STATE_SECTIONS |-> _load_section(d, s)]

\* save_state: write every section the dict holds to its own file
save_state(d, state) ==
    [s \in _STATE_SECTIONS |-> IF state[s].exists THEN state[s] ELSE d[s]]

\* state.setdefault(section, <empty>)
setdefault(state, section) ==
    IF state[section].exists THEN state
    ELSE [state EXCEPT ![section] = [exists |-> TRUE, data |-> EmptyData(section)]]

(***************************************************************************)
(* Run history helpers.                                                    *)
(***************************************************************************)
StageEvent(stage, status, detail) ==
    [stage |-> stage, status |-> status, detail |-> detail]

RunRecordOf(run_id, ok, events, summary) ==
    [run_id |-> run_id, ok |-> ok, events |-> events, summary |-> summary]

\* index of the first record with this run id, 0 when there is none
FindRun(runs, run_id) ==
    IF \E i \in 1..Len(runs) : runs[i].run_id = run_id
    THEN CHOOSE i \in 1..Len(runs) :
            /\ runs[i].run_id = run_id
            /\ \A j \in 1..(i - 1) : runs[j].run_id # run_id
    ELSE 0

_trim_runs(state) ==
    LET runs == state["runs"].data IN
    IF Len(runs) > MAX_RUN_HISTORY
    THEN [state EXCEPT !["runs"].data =
            SubSeq(runs, Len(runs) - MAX_RUN_HISTORY + 1, Len(runs))]
    ELSE state

\* start_run between load_state and save_state
start_run(state, run_id) ==
    LET s1 == setdefault(state, "runs")
        s2 == [s1 EXCEPT !["runs"].data =
                 Append(@, RunRecordOf(run_id, "none", <<>>, ""))]
    IN _trim_runs(s2)

\* append_run_event between load_state and save_state
append_run_event(state, run_id, event) ==
    LET s1 == setdefault(state, "runs")
        i  == FindRun(s1["runs"].data, run_id)
    IN IF i > 0
       THEN [s1 EXCEPT !["runs"].data[i].events = Append(@, event)]
       ELSE [s1 EXCEPT !["runs"].data =
               Append(@, RunRecordOf(run_id, "none", <<event>>, ""))]

\* finalize_run between load_state and save_state
finalize_run(state, run_id, ok, summary) ==
    LET s1 == setdefault(state, "runs")
        i  == FindRun(s1["runs"].data, run_id)
    IN IF i > 0
       THEN [s1 EXCEPT !["runs"].data[i].ok = ok,
                       !["runs"].data[i].summary = IF summary # "" THEN summary ELSE @]
       ELSE [s1 EXCEPT !["runs"].data =
               Append(@, RunRecordOf(run_id, ok, <<>>, summary))]

\* get_run: the record of a run, or none
get_run_found(d, run_id) ==
    FindRun(load_state(d)["runs"].data, run_id) > 0

get_run(d, run_id) ==
    LET runs == load_state(d)["runs"].data IN runs[FindRun(runs, run_id)]

(***************************************************************************)
(* The declarative config, as far as the converge engine reads it.         *)
(***************************************************************************)
AllEnabled == ServiceNames

\* the service toggles of the configs submitted to /api/apply
EnabledChoices ==
    { AllEnabled,
      AllEnabled \ {"radarr", "sonarr"},
      AllEnabled \ {"radarr", "prowlarr"},
      {"pipeline"} }

Configs == {[enabled |-> e, qbpass |-> 1] : e \in EnabledChoices}

NoConfig == [enabled |-> {}, qbpass |-> 0]

(***************************************************************************)
(* ApplyRunner.run: one request thread per element of Runners.             *)
(***************************************************************************)
Runners == {"r1", "r2"}

NoEvent == StageEvent("", "", "")
NoOp == [kind |-> "none", event |-> NoEvent, svc |-> ""]
EmptyState == [s \in _STATE_SECTIONS |-> NoSection(s)]

IdleRunner ==
    [pc |-> "idle", run_id |-> 0, cfg |-> NoConfig, events |-> <<>>,
     op |-> NoOp, loaded |-> FALSE, snap |-> EmptyState,
     i |-> 1, failed |-> {}, invoked |-> {}, cevents |-> <<>>, vevents |-> <<>>,
     secret_values |-> EmptyData("secrets"), secrets_detail |-> "",
     verify_ok |-> TRUE, finOk |-> "none", finSummary |-> "", result |-> "none"]

SetRunner(r, rec) == runner' = [runner EXCEPT ![r] = rec]

\* no store call of this thread is in flight
Ready(r) == runner[r].op.kind = "none"

\* _record: events.append(event); repo.append_run_event(run_id, event)
_record(rec, stage, status, detail) ==
    LET event == StageEvent(stage, status, detail) IN
    [rec EXCEPT !.events = Append(@, event),
                !.op = [kind |-> "append", event |-> event, svc |-> ""]]

\* _record of a failed stage followed by finalize_run(run_id, ok=False, summary)
RecordFatal(rec, stage, detail, summary) ==
    [_record(rec, stage, "failed", detail) EXCEPT
        !.pc = "finalize", !.finOk = "false", !.finSummary = summary]

\* an exception nothing in run() or apply_stack catches: the request ends in HTTP 500
Raise(rec) == [rec EXCEPT !.pc = "raised", !.result = "raised"]

Fault == faults < MaxFaults /\ faults' = faults + 1
NoFault == faults' = faults

\* POST /api/apply: run_id = uuid4(); runner.run(run_id, config) begins with start_run
ApplyStack(r) ==
    /\ runner[r].pc = "idle"
    /\ \E cfg \in Configs :
         SetRunner(r, [runner[r] EXCEPT
            !.pc = "diff", !.run_id = nextRunId, !.cfg = cfg,
            !.op = [kind |-> "start_run", event |-> NoEvent, svc |-> ""]])
    /\ nextRunId' = nextRunId + 1
    /\ UNCHANGED <<disk, stack, faults, host, operator, worker, fs, writer, remote, ensured, stream, call>>

\* load_state at the head of a store call
StoreLoad(r) ==
    /\ runner[r].op.kind # "none"
    /\ ~runner[r].loaded
    /\ SetRunner(r, [runner[r] EXCEPT !.loaded = TRUE, !.snap = load_state(disk)])
    /\ UNCHANGED <<disk, stack, nextRunId, faults, host, operator, worker, fs, writer, remote, ensured, stream, call>>

\* the modification and save_state of start_run, append_run_event and finalize_run
RunLogWrite(rec) ==
    CASE rec.op.kind = "start_run" -> start_run(rec.snap, rec.run_id)
      [] rec.op.kind = "append"    -> append_run_event(rec.snap, rec.run_id, rec.op.event)
      [] rec.op.kind = "finalize"  ->
            finalize_run(rec.snap, rec.run_id, rec.finOk, rec.finSummary)

StoreSave(r) ==
    /\ runner[r].op.kind \in {"start_run", "append", "finalize"}
    /\ runner[r].loaded
    /\ disk' = save_state(disk, RunLogWrite(runner[r]))
    /\ SetRunner(r, [runner[r] EXCEPT
          !.op = NoOp, !.loaded = FALSE, !.snap = EmptyState,
          !.pc = IF runner[r].op.kind = "finalize" THEN "done" ELSE @,
          !.result = IF runner[r].op.kind = "finalize" THEN runner[r].finOk ELSE @])
    /\ UNCHANGED <<stack, nextRunId, faults, host, operator, worker, fs, writer, remote, ensured, stream, call>>

\* preview() and the diff event (no started event precedes it)
Diff(r) ==
    /\ runner[r].pc = "diff" /\ Ready(r)
    /\ CASE stack.status = "absent" ->
              SetRunner(r, [_record(runner[r], "diff", "ok", "no config changes detected")
                              EXCEPT !.pc = "validate"])
         [] stack.status = "valid" ->
              SetRunner(r, [_record(runner[r], "diff", "ok",
                                    IF stack.cfg # runner[r].cfg
                                    THEN "changes" ELSE "no config changes detected")
                              EXCEPT !.pc = "validate"])
         [] OTHER -> SetRunner(r, Raise(runner[r]))
    /\ UNCHANGED <<disk, stack, nextRunId, faults, host, operator, worker, fs, writer, remote, ensured, stream, call>>

\* what-if: the validate stage goes straight to its checks
ValidateStart_silent(r) ==
    /\ runner[r].pc = "validate" /\ Ready(r)
    /\ SetRunner(r, [runner[r] EXCEPT !.pc = "validate.run"])
    /\ UNCHANGED <<disk, stack, nextRunId, faults, host, operator, worker, fs, writer, remote, ensured, stream, call>>

ValidateStart(r) ==
    /\ runner[r].pc = "validate" /\ Ready(r)
    /\ SetRunner(r, [_record(runner[r], "validate", "started", "")
                       EXCEPT !.pc = "validate.run"])
    /\ UNCHANGED <<disk, stack, nextRunId, faults, host, operator, worker, fs, writer, remote, ensured, stream, call>>

\* run_validation and its terminal event: a port of the config in use on the host
\* fails the checks
ValidateRun(r) ==
    /\ runner[r].pc = "validate.run" /\ Ready(r)
    /\ \/ /\ host # "ports busy" /\ NoFault
          /\ SetRunner(r, [_record(runner[r], "validate", "ok", "checks")
                             EXCEPT !.pc = "prepare.paths"])
       \/ /\ IF host # "ports busy" THEN Fault ELSE NoFault
          /\ SetRunner(r, RecordFatal(runner[r], "validate", "checks", "Validation failed"))
    /\ UNCHANGED <<disk, stack, nextRunId, host, operator, worker, fs, writer, remote, ensured, stream, call>>

\* ensure_directories: ok, PermissionError (caught) or another OSError (not caught)
PreparePaths(r) ==
    /\ runner[r].pc = "prepare.paths" /\ Ready(r)
    /\ \/ /\ NoFault
          /\ SetRunner(r, [_record(runner[r], "prepare.paths", "ok", "directories ready")
                             EXCEPT !.pc = "prepare.proxy"])
       \/ /\ Fault
          /\ SetRunner(r, RecordFatal(runner[r], "prepare.paths", "Cannot write",
                                      "Directory permissions error"))
       \/ /\ Fault
          /\ SetRunner(r, Raise(runner[r]))
    /\ UNCHANGED <<disk, stack, nextRunId, host, operator, worker, fs, writer, remote, ensured, stream, call>>

\* ensure_traefik_assets: ok or RuntimeError
PrepareProxy(r) ==
    /\ runner[r].pc = "prepare.proxy" /\ Ready(r)
    /\ \/ /\ NoFault
          /\ SetRunner(r, [_record(runner[r], "prepare.proxy", "ok", "proxy")
                             EXCEPT !.pc = "prepare.secrets"])
       \/ /\ Fault
          /\ SetRunner(r, RecordFatal(runner[r], "prepare.proxy", "openssl failed",
                                      "Proxy preparation failed"))
    /\ UNCHANGED <<disk, stack, nextRunId, host, operator, worker, fs, writer, remote, ensured, stream, call>>

\* _ensure_secrets between load_state and save_state: the torrent client's
\* credentials go from the config into the secrets section
_ensure_secrets(state, cfg) ==
    LET s1 == setdefault(state, "secrets") IN
    IF s1["secrets"].data["qbittorrent.password"] # cfg.qbpass
    THEN [s1 EXCEPT !["secrets"].data["qbittorrent.password"] = cfg.qbpass]
    ELSE s1

PrepareSecrets(r) ==
    /\ runner[r].pc = "prepare.secrets" /\ Ready(r)
    /\ SetRunner(r, [runner[r] EXCEPT
          !.pc = "prepare.secrets.record",
          !.op = [kind |-> "secrets", event |-> NoEvent, svc |-> ""]])
    /\ UNCHANGED <<disk, stack, nextRunId, faults, host, operator, worker, fs, writer, remote, ensured, stream, call>>

\* the tail of _ensure_secrets: save_state only when state_dirty
SecretsSave(r) ==
    /\ runner[r].op.kind = "secrets" /\ runner[r].loaded
    /\ LET new   == _ensure_secrets(runner[r].snap, runner[r].cfg)
           dirty == new # setdefault(runner[r].snap, "secrets")
       IN /\ disk' = IF dirty THEN save_state(disk, new) ELSE disk
          /\ SetRunner(r, [runner[r] EXCEPT
                !.op = NoOp, !.loaded = FALSE, !.snap = EmptyState,
                !.secret_values = new["secrets"].data,
                !.secrets_detail = IF dirty THEN "qbittorrent password set"
                                   ELSE "secrets unchanged"])
    /\ UNCHANGED <<stack, nextRunId, faults, host, operator, worker, fs, writer, remote, ensured, stream, call>>

PrepareSecretsRecord(r) ==
    /\ runner[r].pc = "prepare.secrets.record" /\ Ready(r)
    /\ SetRunner(r, [_record(runner[r], "prepare.secrets", "ok", runner[r].secrets_detail)
                       EXCEPT !.pc = "render"])
    /\ UNCHANGED <<disk, stack, nextRunId, faults, host, operator, worker, fs, writer, remote, ensured, stream, call>>

RenderStart(r) ==
    /\ runner[r].pc = "render" /\ Ready(r)
    /\ SetRunner(r, [_record(runner[r], "render", "started", "")
                       EXCEPT !.pc = "render.run"])
    /\ UNCHANGED <<disk, stack, nextRunId, faults, host, operator, worker, fs, writer, remote, ensured, stream, call>>

\* renderer.render: returns, or raises (TemplateNotFound, OSError) with nothing catching it
RenderRun(r) ==
    /\ runner[r].pc = "render.run" /\ Ready(r)
    /\ \/ /\ NoFault
          /\ SetRunner(r, [_record(runner[r], "render", "ok", "docker-compose.yml,.env")
                             EXCEPT !.pc = "persist"])
       \/ /\ Fault
          /\ SetRunner(r, Raise(runner[r]))
    /\ UNCHANGED <<disk, stack, nextRunId, host, operator, worker, fs, writer, remote, ensured, stream, call>>

\* save_stack(config) and the persist event; _atomic_write re-raises an OSError
\* and leaves stack.yaml as it was
Persist(r) ==
    /\ runner[r].pc = "persist" /\ Ready(r)
    /\ \/ /\ NoFault
          /\ stack' = [status |-> "valid", cfg |-> runner[r].cfg]
          /\ SetRunner(r, [_record(runner[r], "persist", "ok", "stack.yaml")
                             EXCEPT !.pc = "prepare.conflicts"])
       \/ /\ Fault
          /\ stack' = stack
          /\ SetRunner(r, Raise(runner[r]))
    /\ UNCHANGED <<disk, nextRunId, host, operator, worker, fs, writer, remote, ensured, stream, call>>

\* the services listed in enabled_services before stop_conflicting_dev_services
ConflictCandidates(cfg) == cfg.enabled \cap ClientNames

ConflictsStart(r) ==
    /\ runner[r].pc = "prepare.conflicts" /\ Ready(r)
    /\ IF ConflictCandidates(runner[r].cfg) # {}
       THEN SetRunner(r, [_record(runner[r], "prepare.conflicts", "started", "")
                            EXCEPT !.pc = "prepare.conflicts.run"])
       ELSE SetRunner(r, [runner[r] EXCEPT !.pc = "deploy.compose"])
    /\ UNCHANGED <<disk, stack, nextRunId, faults, host, operator, worker, fs, writer, remote, ensured, stream, call>>

\* stop_conflicting_dev_services: on failure the runner builds
\* StageEvent(status="warning"), which the StageEvent model rejects (ValidationError)
ConflictsRun(r) ==
    /\ runner[r].pc = "prepare.conflicts.run" /\ Ready(r)
    /\ \/ /\ NoFault
          /\ SetRunner(r, [_record(runner[r], "prepare.conflicts", "ok", "no conflicts")
                             EXCEPT !.pc = "deploy.compose"])
       \/ /\ Fault
          /\ SetRunner(r, Raise(runner[r]))
    /\ UNCHANGED <<disk, stack, nextRunId, host, operator, worker, fs, writer, remote, ensured, stream, call>>

DeployStart(r) ==
    /\ runner[r].pc = "deploy.compose" /\ Ready(r)
    /\ SetRunner(r, [_record(runner[r], "deploy.compose", "started", "")
                       EXCEPT !.pc = "deploy.compose.run"])
    /\ UNCHANGED <<disk, stack, nextRunId, faults, host, operator, worker, fs, writer, remote, ensured, stream, call>>

\* index of the next service _wait_for_services waits for, from position i
NextWait(cfg, i) ==
    IF \E j \in i..Len(WAIT_ORDER) : WAIT_ORDER[j] \in cfg.enabled
    THEN CHOOSE j \in i..Len(WAIT_ORDER) :
            /\ WAIT_ORDER[j] \in cfg.enabled
            /\ \A k \in i..(j - 1) : WAIT_ORDER[k] \notin cfg.enabled
    ELSE Len(WAIT_ORDER) + 1

\* compose_runner.up(): nonzero exit ends the run
DeployRun(r) ==
    /\ runner[r].pc = "deploy.compose.run" /\ Ready(r)
    /\ \/ /\ host # "docker down" /\ NoFault
          /\ SetRunner(r, [_record(runner[r], "deploy.compose", "ok", "ok")
                             EXCEPT !.pc = "wait", !.i = NextWait(runner[r].cfg, 1)])
       \/ /\ IF host # "docker down" THEN Fault ELSE NoFault
          /\ SetRunner(r, RecordFatal(runner[r], "deploy.compose", "failed",
                                      "Compose up failed"))
    /\ UNCHANGED <<disk, stack, nextRunId, host, operator, worker, fs, writer, remote, ensured, stream, call>>

\* _wait_for_services: the started event of the next enabled service
WaitStart(r) ==
    /\ runner[r].pc = "wait" /\ Ready(r)
    /\ IF runner[r].i <= Len(WAIT_ORDER)
       THEN SetRunner(r, [_record(runner[r], "wait." \o WAIT_ORDER[runner[r].i],
                                  "started", "container")
                            EXCEPT !.pc = "wait.run"])
       ELSE SetRunner(r, [runner[r] EXCEPT !.pc = "ensure", !.i = 1])
    /\ UNCHANGED <<disk, stack, nextRunId, faults, host, operator, worker, fs, writer, remote, ensured, stream, call>>

\* _wait_for_port: ready, or timeout after 180 s
WaitRun(r) ==
    /\ runner[r].pc = "wait.run" /\ Ready(r)
    /\ LET stage == "wait." \o WAIT_ORDER[runner[r].i] IN
       \/ /\ NoFault
          /\ SetRunner(r, [_record(runner[r], stage, "ok", "ready")
                             EXCEPT !.pc = "wait",
                                    !.i = NextWait(runner[r].cfg, runner[r].i + 1)])
       \/ /\ Fault
          /\ SetRunner(r, RecordFatal(runner[r], stage, "timeout",
                                      "Service readiness failed"))
    /\ UNCHANGED <<disk, stack, nextRunId, host, operator, worker, fs, writer, remote, ensured, stream, call>>

(***************************************************************************)
(* ServiceConfigurator.ensure / verify and the service clients.            *)
(***************************************************************************)
\* what-if: the scheduler forgets which services failed
_get_blocked_dependencies_forgetful(service, failed_services) == {}

\* the failed services that block this service
_get_blocked_dependencies(service, failed_services) ==
    {dep \in SERVICE_DEPENDENCIES(service) : dep \in failed_services}

AddEvent(rec, field, event) ==
    IF field = "cevents" THEN [rec EXCEPT !.cevents = Append(@, event)]
    ELSE [rec EXCEPT !.vevents = Append(@, event)]

\* one iteration of the loop of ServiceConfigurator.ensure up to the client call
EnsureStep(r) ==
    /\ runner[r].pc = "ensure" /\ Ready(r)
    /\ LET rec   == runner[r]
           i     == rec.i
           name  == SERVICE_DEPENDENCY_ORDER[i]
           stage == "configure." \o name
           next  == [rec EXCEPT !.i = i + 1]
       IN
       IF i > Len(SERVICE_DEPENDENCY_ORDER)
       THEN SetRunner(r, [rec EXCEPT !.pc = "configure.record", !.i = 1])
       ELSE IF name \notin rec.cfg.enabled
       THEN SetRunner(r, AddEvent(next, "cevents",
                StageEvent(stage, "ok", "skipped (disabled)")))
       ELSE IF _get_blocked_dependencies(name, rec.failed) # {}
       THEN SetRunner(r, [AddEvent(next, "cevents",
                StageEvent(stage, "failed", "skipped (dependency failed)"))
                EXCEPT !.failed = @ \cup {name}])
       ELSE IF name \notin ClientNames
       THEN SetRunner(r, AddEvent(next, "cevents",
                StageEvent(stage, "ok", "skipped (no ensure required)")))
       ELSE SetRunner(r, [rec EXCEPT
                !.pc = "ensure.client", !.invoked = @ \cup {name},
                !.op = [kind |-> "ensure", event |-> NoEvent, svc |-> name]])
    /\ UNCHANGED <<disk, stack, nextRunId, faults, host, operator, worker, fs, writer, remote, ensured, stream, call>>

\* QBittorrentClient.ensure on success: the credentials it logged in with go to secrets
qb_ensure_state(state, cfg) ==
    LET s1 == setdefault(state, "secrets") IN
    [s1 EXCEPT !["secrets"].data["qbittorrent.password"] = cfg.qbpass]

\* Radarr/Sonarr/Prowlarr ensure: the API key read from config.xml goes to secrets
arr_store_key(state, name) ==
    LET s1 == setdefault(setdefault(state, "services"), "secrets") IN
    IF s1["secrets"].data[name \o ".api_key"] = 0
    THEN [s1 EXCEPT !["secrets"].data[name \o ".api_key"] = 1]
    ELSE s1

\* ... and on success the root-folder and download-client ids go to services
arr_ensure_state(state, name) ==
    [arr_store_key(state, name) EXCEPT !["services"].data = @ \cup {name}]

\* the client returned: the event of the service is appended, failures are tracked
EnsureDone(rec, success, detail) ==
    LET name == rec.op.svc
        done == AddEvent(rec, "cevents",
                    StageEvent("configure." \o name,
                               IF success THEN "ok" ELSE "failed", detail))
    IN [done EXCEPT !.pc = "ensure", !.i = @ + 1,
                    !.op = NoOp, !.loaded = FALSE, !.snap = EmptyState,
                    !.failed = IF success THEN @ ELSE @ \cup {name}]

\* _safe_ensure(client, config) from the client's load_state on
ClientEnsure(r) ==
    /\ runner[r].op.kind = "ensure" /\ runner[r].loaded
    /\ LET rec  == runner[r]
           name == rec.op.svc
           snap == rec.snap
       IN
       \/ /\ name = "qbittorrent" /\ NoFault
          /\ \E changed \in BOOLEAN :
               LET new == qb_ensure_state(snap, rec.cfg) IN
               disk' = IF changed \/ new # setdefault(snap, "secrets")
                       THEN save_state(disk, new) ELSE disk
          /\ SetRunner(r, EnsureDone(rec, TRUE, "user"))
       \/ /\ name \in ArrClients /\ NoFault
          /\ disk' = save_state(disk, arr_ensure_state(snap, name))
          /\ SetRunner(r, EnsureDone(rec, TRUE, "online"))
       \/ /\ name \in ArrClients /\ Fault
          /\ snap["secrets"].data[name \o ".api_key"] = 0
          /\ \/ disk' = disk
             \/ disk' = save_state(disk, arr_store_key(snap, name))
          /\ SetRunner(r, EnsureDone(rec, FALSE, "config.xml or API error"))
       \/ /\ name \in {"jellyfin", "jellyseerr"} /\ NoFault
          /\ disk' = disk
          /\ SetRunner(r, EnsureDone(rec, TRUE, "ok"))
       \/ /\ Fault
          /\ name \in ArrClients => snap["secrets"].data[name \o ".api_key"] # 0
          /\ disk' = disk
          /\ SetRunner(r, EnsureDone(rec, FALSE, "unreachable"))
    /\ UNCHANGED <<stack, nextRunId, host, operator, worker, fs, writer, remote, ensured, stream, call>>

\* run(): the configure events are recorded after ensure() returned them all
RecordConfigured(r) ==
    /\ runner[r].pc = "configure.record" /\ Ready(r)
    /\ LET rec == runner[r] IN
       IF rec.i <= Len(rec.cevents)
       THEN LET e == rec.cevents[rec.i] IN
            SetRunner(r, [_record(rec, e.stage, e.status, e.detail) EXCEPT !.i = @ + 1])
       ELSE SetRunner(r, [rec EXCEPT !.pc = "render.secrets"])
    /\ UNCHANGED <<disk, stack, nextRunId, faults, host, operator, worker, fs, writer, remote, ensured, stream, call>>

\* RenderSecrets recording the refresh under the stage name of the first render
RenderSecrets_as_render(r) ==
    /\ runner[r].pc = "render.secrets" /\ Ready(r)
    /\ LET rec    == runner[r]
           latest == load_state(disk)["secrets"].data
       IN
       IF latest # rec.secret_values
       THEN SetRunner(r, [_record(rec, "render", "ok", "secrets refreshed")
                            EXCEPT !.pc = "verify", !.i = 1, !.secret_values = latest])
       ELSE SetRunner(r, [rec EXCEPT !.pc = "verify", !.i = 1])
    /\ UNCHANGED <<disk, stack, nextRunId, faults, host, operator, worker, fs, writer, remote, ensured, stream, call>>

\* re-render the secret files when ensure changed the secrets section
RenderSecrets(r) ==
    /\ runner[r].pc = "render.secrets" /\ Ready(r)
    /\ LET rec    == runner[r]
           latest == load_state(disk)["secrets"].data
       IN
       IF latest # rec.secret_values
       THEN SetRunner(r, [_record(rec, "render.secrets", "ok", "secrets refreshed")
                            EXCEPT !.pc = "verify", !.i = 1, !.secret_values = latest])
       ELSE SetRunner(r, [rec EXCEPT !.pc = "verify", !.i = 1])
    /\ UNCHANGED <<disk, stack, nextRunId, faults, host, operator, worker, fs, writer, remote, ensured, stream, call>>

\* the clients that define verify (RadarrClient and JellyfinClient do not)
VerifyClients == {"qbittorrent", "sonarr", "prowlarr", "jellyseerr"}

\* one iteration of the loop of ServiceConfigurator.verify; a client's verify
\* can raise (QBittorrentClient.verify: raise_for_status on the categories call)
VerifyStep(r) ==
    /\ runner[r].pc = "verify" /\ Ready(r)
    /\ LET rec   == runner[r]
           i     == rec.i
           name  == SERVICE_DEPENDENCY_ORDER[i]
           stage == "verify." \o name
           next  == [rec EXCEPT !.i = i + 1]
       IN
       IF i > Len(SERVICE_DEPENDENCY_ORDER)
       THEN NoFault /\ SetRunner(r, [rec EXCEPT !.pc = "verify.record", !.i = 1])
       ELSE IF name \notin rec.cfg.enabled
       THEN NoFault /\ SetRunner(r, AddEvent(next, "vevents",
                StageEvent(stage, "ok", "skipped (disabled)")))
       ELSE IF name \notin ClientNames
       THEN NoFault /\ SetRunner(r, AddEvent(next, "vevents",
                StageEvent(stage, "ok", "skipped (no client)")))
       ELSE IF name \notin VerifyClients
       THEN NoFault /\ SetRunner(r, AddEvent(next, "vevents",
                StageEvent(stage, "ok", "skipped (no verification)")))
       ELSE \/ NoFault /\ SetRunner(r, AddEvent(next, "vevents",
                StageEvent(stage, "ok", "verified")))
            \/ Fault /\ SetRunner(r, AddEvent(next, "vevents",
                StageEvent(stage, "failed", "mismatch")))
            \/ name = "qbittorrent" /\ Fault /\ SetRunner(r, Raise(rec))
    /\ UNCHANGED <<disk, stack, nextRunId, host, operator, worker, fs, writer, remote, ensured, stream, call>>

\* run(): the verify events are recorded; one failed event fails the run
RecordVerified(r) ==
    /\ runner[r].pc = "verify.record" /\ Ready(r)
    /\ LET rec == runner[r] IN
       IF rec.i <= Len(rec.vevents)
       THEN LET e == rec.vevents[rec.i] IN
            SetRunner(r, [_record(rec, e.stage, e.status, e.detail) EXCEPT
                !.i = @ + 1,
                !.verify_ok = IF e.status = "failed" THEN FALSE ELSE @])
       ELSE IF ~rec.verify_ok
       THEN SetRunner(r, [rec EXCEPT !.pc = "finalize", !.finOk = "false",
                                     !.finSummary = "Verification failed"])
       ELSE SetRunner(r, [rec EXCEPT !.pc = "finalize", !.finOk = "true",
                                     !.finSummary = "Rendered compose bundle"])
    /\ UNCHANGED <<disk, stack, nextRunId, faults, host, operator, worker, fs, writer, remote, ensured, stream, call>>

\* repo.finalize_run(run_id, ok, summary); run() returns when it is saved
FinalizeRun(r) ==
    /\ runner[r].pc = "finalize" /\ Ready(r)
    /\ SetRunner(r, [runner[r] EXCEPT
          !.pc = "return",
          !.op = [kind |-> "finalize", event |-> NoEvent, svc |-> ""]])
    /\ UNCHANGED <<disk, stack, nextRunId, faults, host, operator, worker, fs, writer, remote, ensured, stream, call>>

\* every step of one request thread
RunnerStep(r) ==
    \/ ApplyStack(r) \/ StoreLoad(r) \/ StoreSave(r) \/ Diff(r)
    \/ ValidateStart(r) \/ ValidateRun(r) \/ PreparePaths(r) \/ PrepareProxy(r)
    \/ PrepareSecrets(r) \/ SecretsSave(r) \/ PrepareSecretsRecord(r)
    \/ RenderStart(r) \/ RenderRun(r) \/ Persist(r)
    \/ ConflictsStart(r) \/ ConflictsRun(r) \/ DeployStart(r) \/ DeployRun(r)
    \/ WaitStart(r) \/ WaitRun(r) \/ EnsureStep(r) \/ ClientEnsure(r)
    \/ RecordConfigured(r) \/ RenderSecrets(r) \/ VerifyStep(r) \/ RecordVerified(r)
    \/ FinalizeRun(r)

(***************************************************************************)
(* Initial states and the specification of a single apply request.         *)
(***************************************************************************)
(***************************************************************************)
(* The service clients' ensure and verify against the live services        *)
(* (specification SpecEnsure): qBittorrent's categories and the            *)
(* qBittorrent download client of Radarr and Sonarr.                       *)
(***************************************************************************)
\* the fields of models.DownloadCategories
DownloadCategories == [radarr |-> "movies", sonarr |-> "tv"]

\* QBittorrentClient.INTERNAL_PORT and config.services.qbittorrent.port, as the
\* clients compare them: str(current.get("port")) == str(port)
INTERNAL_PORT == "8080"
qbittorrent_port == "8080"
\* config.services.qbittorrent.username
qbittorrent_username == "admin"
Passwords == 1..2

\* _ensure_categories: category label -> save path
CategoryPaths ==
    [movies |-> "/downloads/complete/movies", tv |-> "/downloads/complete/tv"]

\* POST /api/v2/torrents/createCategory: qBittorrent answers 409 for a category
\* that exists
createCategory(categories, name, save_path) ==
    IF categories[name] = "absent"
    THEN [status |-> 200, categories |-> [categories EXCEPT ![name] = save_path]]
    ELSE [status |-> 409, categories |-> categories]

\* POST /api/v2/torrents/editCategory: qBittorrent answers 409 when the category
\* already has this save path
editCategory(categories, name, save_path) ==
    IF categories[name] \notin {"absent", save_path}
    THEN [status |-> 200, categories |-> [categories EXCEPT ![name] = save_path]]
    ELSE [status |-> 409, categories |-> categories]

\* True when the category was created or updated
_create_or_update_category(categories, name, save_path) ==
    LET response == createCategory(categories, name, save_path) IN
    IF response.status = 200
    THEN [changed |-> TRUE, categories |-> response.categories]
    ELSE LET update == editCategory(response.categories, name, save_path) IN
         [changed |-> update.status = 200, categories |-> update.categories]

_ensure_categories(categories) ==
    LET m == _create_or_update_category(categories, "movies", CategoryPaths["movies"])
        t == _create_or_update_category(m.categories, "tv", CategoryPaths["tv"])
    IN [changed |-> m.changed \/ t.changed, categories |-> t.categories]

\* a service's answer to ensure: EnsureOutcome plus what it left behind
Outcome(changed, success, rem, state) ==
    [changed |-> changed, success |-> success, remote |-> rem, state |-> state]

\* QBittorrentClient.ensure: log in, set the preferences, ensure the categories
QBittorrentClient_ensure(rem, state, cfg) ==
    LET password_changed == cfg.qbpass # rem.qb_password
        categories == _ensure_categories(rem.categories)
    IN Outcome(password_changed \/ categories.changed, TRUE,
               [rem EXCEPT !.qb_password = cfg.qbpass,
                           !.categories = categories.categories],
               qb_ensure_state(state, cfg))

\* QBittorrentClient.verify: both categories exist with their save path
QBittorrentClient_verify(rem) ==
    \A name \in DOMAIN CategoryPaths : rem.categories[name] = CategoryPaths[name]

NoClient == [present |-> FALSE, host |-> "", port |-> "", category |-> "", username |-> ""]

DownloadClient(h, port, category, username) ==
    [present |-> TRUE, host |-> h, port |-> port, category |-> category,
     username |-> username]

\* set_field_values(client["fields"], desired_fields)
set_field_values(client, desired_fields) ==
    DownloadClient(desired_fields.host, desired_fields.port, desired_fields.category,
                   desired_fields.username)

\* RadarrClient._ensure_download_client: ready when host, port and category match
RadarrClient_ensure_download_client(client, username) ==
    LET desired_fields == [host |-> "qbittorrent", port |-> qbittorrent_port,
                           category |-> DownloadCategories.radarr, username |-> username]
    IN IF client.present
            /\ client.host = "qbittorrent"
            /\ client.port = qbittorrent_port
            /\ client.category = DownloadCategories.radarr
       THEN [changed |-> FALSE, client |-> client]
       ELSE [changed |-> TRUE, client |-> set_field_values(client, desired_fields)]

\* SonarrClient._ensure_download_client: ready when host, port, category and
\* username match and the password is the one remembered from the last ensure
SonarrClient_ensure_download_client(client, username, password, previous_password) ==
    LET desired_fields == [host |-> "qbittorrent", port |-> INTERNAL_PORT,
                           category |-> DownloadCategories.sonarr, username |-> username]
        host_ok     == client.host = "qbittorrent"
        port_ok     == client.port = INTERNAL_PORT
        category_ok == client.category = DownloadCategories.sonarr
        username_ok == client.username = username
        password_ok == previous_password # 0 /\ previous_password = password
    IN IF client.present /\ host_ok /\ port_ok /\ category_ok /\ username_ok /\ password_ok
       THEN [changed |-> FALSE, client |-> client]
       ELSE [changed |-> TRUE, client |-> set_field_values(client, desired_fields)]

\* _ensure_root_folder: creating the anime folder reads config.media_policy.anime,
\* which MediaPolicy does not declare (AttributeError)
_ensure_root_folder(roots, target, anime) ==
    IF target \in roots THEN [changed |-> FALSE, raised |-> FALSE, roots |-> roots]
    ELSE IF anime THEN [changed |-> FALSE, raised |-> TRUE, roots |-> roots]
    ELSE [changed |-> TRUE, raised |-> FALSE, roots |-> roots \cup {target}]

\* sonarr_state["download_client_password"] in the services section
download_client_password(p) == "sonarr.download_client_password=" \o ToString(p)

stored_download_client_password(state) ==
    IF \E p \in Passwords : download_client_password(p) \in state["services"].data
    THEN CHOOSE p \in Passwords : download_client_password(p) \in state["services"].data
    ELSE 0

\* qb_secrets.get("password", config.services.qbittorrent.password)
qb_password(state, cfg) ==
    IF state["secrets"].data["qbittorrent.password"] # 0
    THEN state["secrets"].data["qbittorrent.password"]
    ELSE cfg.qbpass

\* RadarrClient.ensure: API key, root folder, download client
RadarrClient_ensure(rem, state, cfg) ==
    LET rf == _ensure_root_folder(rem.radarr_roots, "/data/media/movies", FALSE)
        dl == RadarrClient_ensure_download_client(rem.radarr_dl, qbittorrent_username)
    IN Outcome(rf.changed \/ dl.changed, TRUE,
               [rem EXCEPT !.radarr_roots = rf.roots, !.radarr_dl = dl.client],
               arr_ensure_state(state, "radarr"))

\* SonarrClient.ensure: API key, UI credentials, root folders, download client;
\* an exception of a helper reaches _safe_ensure after the first save_state
SonarrClient_ensure(rem, state, cfg) ==
    LET s1    == arr_store_key(state, "sonarr")
        tv    == _ensure_root_folder(rem.sonarr_roots, "/data/media/tv", FALSE)
        anime == _ensure_root_folder(tv.roots, "/data/media/anime", TRUE)
        pw    == qb_password(s1, cfg)
        dl    == SonarrClient_ensure_download_client(
                    rem.sonarr_dl, qbittorrent_username, pw,
                    stored_download_client_password(s1))
        s2    == arr_ensure_state(state, "sonarr")
    IN IF anime.raised
       THEN Outcome(FALSE, FALSE,
                    [rem EXCEPT !.sonarr_ui = TRUE, !.sonarr_roots = tv.roots], s1)
       ELSE Outcome(~rem.sonarr_ui \/ tv.changed \/ anime.changed \/ dl.changed, TRUE,
                    [rem EXCEPT !.sonarr_ui = TRUE, !.sonarr_roots = anime.roots,
                                !.sonarr_dl = dl.client],
                    [s2 EXCEPT !["services"].data =
                        (@ \ {download_client_password(p) : p \in Passwords})
                            \cup {download_client_password(pw)}])

\* SonarrClient.verify: the API key is stored and the download client matches
SonarrClient_verify(rem, state) ==
    /\ state["secrets"].data["sonarr.api_key"] # 0
    /\ rem.sonarr_dl.present
    /\ rem.sonarr_dl.host = "qbittorrent"
    /\ rem.sonarr_dl.port = INTERNAL_PORT
    /\ rem.sonarr_dl.username = qbittorrent_username
    /\ rem.sonarr_dl.category = DownloadCategories.sonarr

\* a request a client sends to its service
Request(method, path, data) == [method |-> method, path |-> path, data |-> data]

\* the service's configuration after it answered a request: a GET and the login
\* leave it as it was, createCategory stores the category
serve(rem, request) ==
    IF request.method = "GET" \/ request.path = "/api/v2/auth/login" THEN rem
    ELSE IF request.path = "/api/v2/torrents/createCategory"
    THEN [rem EXCEPT !.categories =
             createCategory(@, request.data.category, request.data.savePath).categories]
    ELSE rem

RECURSIVE served(_, _)
served(rem, requests) ==
    IF requests = <<>> THEN rem
    ELSE served(serve(rem, Head(requests)), Tail(requests))

\* a verify that creates the movies category it finds missing
QBittorrentClient_verify_repairs ==
    <<Request("POST", "/api/v2/auth/login", <<>>),
      Request("GET", "/api/v2/torrents/categories", <<>>),
      Request("POST", "/api/v2/torrents/createCategory",
              [category |-> "movies", savePath |-> CategoryPaths["movies"]])>>

\* the requests of QBittorrentClient.verify: the login, the preferences and
\* the categories
QBittorrentClient_verify_requests ==
    <<Request("POST", "/api/v2/auth/login", <<>>),
      Request("GET", "/api/v2/app/preferences", <<>>),
      Request("GET", "/api/v2/torrents/categories", <<>>)>>

\* the request of SonarrClient.verify
SonarrClient_verify_requests == <<Request("GET", "/api/v3/downloadclient", <<>>)>>

\* the request of ProwlarrClient.verify
ProwlarrClient_verify_requests == <<Request("GET", "/api/v1/applications", <<>>)>>

\* the requests of JellyseerrClient.verify
JellyseerrClient_verify_requests ==
    <<Request("GET", "/api/v1/settings/public", <<>>),
      Request("GET", "/api/v1/settings/radarr", <<>>),
      Request("GET", "/api/v1/settings/sonarr", <<>>)>>

\* every request the verify phase sends, in the order of the services
verify_requests ==
    QBittorrentClient_verify_requests \o SonarrClient_verify_requests
        \o ProwlarrClient_verify_requests \o JellyseerrClient_verify_requests

\* the clients of this part, in the order ensure and verify visit them
EnsureOrder ==
    SelectSeq(SERVICE_DEPENDENCY_ORDER, LAMBDA s : s \in {"qbittorrent", "radarr", "sonarr"})

EnsureServices == {EnsureOrder[i] : i \in 1..Len(EnsureOrder)}

NoOutcome == [called |-> FALSE, changed |-> FALSE, success |-> FALSE]

NoRemote ==
    [categories |-> [name \in DOMAIN CategoryPaths |-> "absent"], qb_password |-> 0,
     radarr_roots |-> {}, radarr_dl |-> NoClient,
     sonarr_ui |-> FALSE, sonarr_roots |-> {}, sonarr_dl |-> NoClient]

IdleEnsured ==
    [run |-> 1, pc |-> "ensure", i |-> 1, failed |-> {}, fresh |-> FALSE,
     outcomes |-> [n \in 1..2 |-> [s \in EnsureServices |-> NoOutcome]],
     verified |-> [n \in 1..2 |-> [s \in EnsureServices |-> "none"]]]

EnsureIdle == remote = NoRemote /\ ensured = IdleEnsured

FreshDisk == EmptyState

IdleOperator == [pc |-> "idle", snap |-> EmptyState, pw |-> 0, calls |-> 0]
NoTorrent == [hash |-> "", category |-> ""]

IdleWorker ==
    [ticks |-> 0, last |-> "none", ffmpeg |-> {}, moved |-> {},
     pc |-> "idle", torrent |-> NoTorrent, checks |-> 0, errors |-> 0,
     alive |-> TRUE]

NoFile == [exists |-> FALSE, content |-> <<>>]

IdleWriter == [pc |-> "idle", pre |-> NoFile, post |-> NoFile, at |-> "", loaded |-> NoFile]

\* no consumer is subscribed and no function is under check
IdleStream == [pc |-> "idle", run_id |-> 0, sent |-> 0, out |-> <<>>]

NoCall == [fn |-> "none"]

CallIdle == stream = IdleStream /\ call = NoCall

CrashIdle ==
    /\ fs = [f \in {"target", "tmp", "corrupted"} |-> NoFile]
    /\ writer = IdleWriter

Init ==
    /\ disk = FreshDisk
    /\ stack \in {[status |-> "absent", cfg |-> NoConfig],
                  [status |-> "invalid", cfg |-> NoConfig]}
                 \cup {[status |-> "valid", cfg |-> c] : c \in Configs}
    /\ runner = [r \in Runners |-> IdleRunner]
    /\ nextRunId = 1
    /\ faults = 0
    /\ host = "healthy"
    /\ operator = IdleOperator
    /\ worker = IdleWorker
    /\ EnsureIdle
    /\ CallIdle
    /\ CrashIdle

Next == RunnerStep("r1")

Spec == Init /\ [][Next]_vars

(***************************************************************************)
(* POST /api/services/qbittorrent/credentials (app.py), served by another  *)
(* thread of the request pool.                                             *)
(***************************************************************************)
\* the password the operator posts
OperatorPassword == 2

\* load_stack, set the credentials, save_stack; load_stack raises without a stack.yaml
OperatorPost ==
    /\ operator.pc = "idle" /\ operator.calls < MaxOperatorCalls
    /\ IF stack.status = "valid"
       THEN /\ stack' = [stack EXCEPT !.cfg.qbpass = OperatorPassword]
            /\ operator' = [operator EXCEPT !.pc = "load", !.pw = OperatorPassword,
                                            !.calls = @ + 1]
       ELSE /\ stack' = stack
            /\ operator' = [operator EXCEPT !.calls = @ + 1]
    /\ UNCHANGED <<disk, runner, nextRunId, faults, host, worker, fs, writer, remote, ensured, stream, call>>

\* state = repo.load_state()
OperatorLoad ==
    /\ operator.pc = "load"
    /\ operator' = [operator EXCEPT !.pc = "save", !.snap = load_state(disk)]
    /\ UNCHANGED <<disk, stack, runner, nextRunId, faults, host, worker, fs, writer, remote, ensured, stream, call>>

\* secrets["qbittorrent"]["password"] = payload.password; repo.save_state(state)
OperatorSave ==
    /\ operator.pc = "save"
    /\ disk' = save_state(disk,
          [setdefault(operator.snap, "secrets") EXCEPT
              !["secrets"].data["qbittorrent.password"] = operator.pw])
    /\ operator' = [operator EXCEPT !.pc = "idle", !.snap = EmptyState]
    /\ UNCHANGED <<stack, runner, nextRunId, faults, host, worker, fs, writer, remote, ensured, stream, call>>

OperatorStep == OperatorPost \/ OperatorLoad \/ OperatorSave

(***************************************************************************)
(* The pipeline worker (pipeline/runner.py).                               *)
(***************************************************************************)
TorrentCategories == {"movies", "tv", "anime", "other", ""}

\* _should_process reads categories.radarr, categories.sonarr and categories.anime:
\* the attribute DownloadCategories does not declare raises AttributeError
_should_process(categories, category) ==
    IF "anime" \in DOMAIN categories
    THEN [raised |-> FALSE,
          value  |-> category \in {categories[f] : f \in {"radarr", "sonarr", "anime"}}]
    ELSE [raised |-> TRUE, value |-> FALSE]

\* _is_processed: the hash has an entry in the ledger, whatever its status
_is_processed(d, torrent_hash) ==
    load_state(d)["pipeline"].data[torrent_hash] # "absent"

\* _mark_processed between load_state and save_state
_mark_processed(d, torrent_hash, status) ==
    save_state(d, [setdefault(load_state(d), "pipeline") EXCEPT
                      !["pipeline"].data[torrent_hash] = status])

\* one _tick of run_forever over a listing of one completed torrent; an exception
\* is caught and printed by run_forever
WorkerTick ==
    /\ worker.ticks < MaxTicks
    /\ \/ /\ stack.status # "valid" \/ "pipeline" \notin stack.cfg.enabled
          /\ worker' = [worker EXCEPT !.ticks = @ + 1,
                           !.last = IF stack.status # "valid" THEN "error" ELSE "disabled"]
          /\ disk' = disk
       \/ /\ stack.status = "valid" /\ "pipeline" \in stack.cfg.enabled
          /\ worker' = [worker EXCEPT !.ticks = @ + 1, !.last = "no torrents"]
          /\ disk' = disk
       \/ /\ stack.status = "valid" /\ "pipeline" \in stack.cfg.enabled
          /\ \E h \in Hashes, category \in TorrentCategories, outcome \in {"ok", "ffmpeg_failed"} :
               LET sp == _should_process(DownloadCategories, category) IN
               IF sp.raised
               THEN /\ worker' = [worker EXCEPT !.ticks = @ + 1, !.last = "error"]
                    /\ disk' = disk
               ELSE IF ~sp.value \/ _is_processed(disk, h)
               THEN /\ worker' = [worker EXCEPT !.ticks = @ + 1, !.last = "skipped"]
                    /\ disk' = disk
               ELSE /\ worker' = [worker EXCEPT !.ticks = @ + 1, !.last = outcome,
                                                !.ffmpeg = @ \cup {h},
                                                !.moved = IF outcome = "ok"
                                                          THEN @ \cup {h} ELSE @]
                    /\ disk' = _mark_processed(disk, h, outcome)
    /\ UNCHANGED <<stack, runner, nextRunId, faults, host, operator, fs, writer, remote, ensured, stream, call>>

(***************************************************************************)
(* The apply request next to the operator and the worker, on a host whose  *)
(* docker daemon is down: the run ends at deploy.compose.                  *)
(***************************************************************************)
\* the steps of a request thread on a host where compose up fails
RunnerStepToDeploy(r) ==
    \/ ApplyStack(r) \/ StoreLoad(r) \/ StoreSave(r) \/ Diff(r)
    \/ ValidateStart(r) \/ ValidateRun(r) \/ PreparePaths(r) \/ PrepareProxy(r)
    \/ PrepareSecrets(r) \/ SecretsSave(r) \/ PrepareSecretsRecord(r)
    \/ RenderStart(r) \/ RenderRun(r) \/ Persist(r)
    \/ ConflictsStart(r) \/ ConflictsRun(r) \/ DeployStart(r) \/ DeployRun(r)
    \/ FinalizeRun(r)

\* a run that failed validation, as finalized on disk
FailedRun(run_id) ==
    RunRecordOf(run_id, "false",
        <<StageEvent("diff", "ok", "no config changes detected"),
          StageEvent("validate", "started", ""),
          StageEvent("validate", "failed", "checks")>>,
        "Validation failed")

\* runs.json after n applies that failed validation
OldRuns(n) == [i \in 1..n |-> FailedRun(1000 + i)]

\* the store after MAX_RUN_HISTORY such applies on a fresh ORCH_ROOT
FullLogDisk ==
    [FreshDisk EXCEPT !["runs"] = [exists |-> TRUE, data |-> OldRuns(MAX_RUN_HISTORY)]]

InitStore ==
    /\ disk \in {FreshDisk, FullLogDisk}
    /\ stack \in {[status |-> "absent", cfg |-> NoConfig]}
                 \cup {[status |-> "valid", cfg |-> c] : c \in Configs}
    /\ runner = [r \in Runners |-> IdleRunner]
    /\ nextRunId = 1
    /\ faults = 0
    /\ host = "docker down"
    /\ operator = IdleOperator
    /\ worker = IdleWorker
    /\ EnsureIdle
    /\ CallIdle
    /\ CrashIdle

NextStore == RunnerStepToDeploy("r1") \/ OperatorStep \/ WorkerTick

SpecStore == InitStore /\ [][NextStore]_vars

(***************************************************************************)
(* The worker loop step by step: the category filter of _tick, and the     *)
(* ledger functions _is_processed / _process_torrent applied to a torrent  *)
(* that is listed as completed, over a ledger found on disk.               *)
(***************************************************************************)
\* the statuses _process_torrent writes to the ledger
LedgerStatuses == {"ok", "ffmpeg_failed", "skipped_no_files"}

\* what-if: run_forever without its except clause
run_forever_uncaught(raised) == ~raised

\* run_forever: "except Exception" prints the error and the loop goes on to
\* time.sleep and the next tick
run_forever(raised) == TRUE

Listed(h, category) == [hash |-> h, category |-> category]

\* _tick up to the category filter, for the next listed torrent
TickFilter ==
    /\ worker.pc = "idle" /\ worker.alive /\ worker.checks < MaxChecks
    /\ stack.status = "valid" /\ "pipeline" \in stack.cfg.enabled
    /\ \E h \in Hashes, category \in TorrentCategories :
         LET sp == _should_process(DownloadCategories, category) IN
         worker' = [worker EXCEPT
            !.torrent = Listed(h, category), !.checks = @ + 1,
            !.pc = IF ~sp.raised /\ sp.value THEN "check" ELSE "idle",
            !.last = IF sp.raised THEN "error" ELSE IF sp.value THEN @ ELSE "filtered",
            !.errors = IF sp.raised THEN @ + 1 ELSE @,
            !.alive = run_forever(sp.raised)]
    /\ UNCHANGED <<disk, stack, runner, nextRunId, faults, host, operator, fs, writer, remote, ensured, stream, call>>

\* _is_processed applied to a listed torrent of a configured category
TickIsProcessed ==
    /\ worker.pc \in {"idle", "check"} /\ worker.alive
    /\ worker.pc = "idle" => worker.checks < MaxChecks
    /\ \E h \in Hashes, category \in {DownloadCategories[f] : f \in DOMAIN DownloadCategories} :
         /\ worker.pc = "check" => worker.torrent = Listed(h, category)
         /\ worker' = [worker EXCEPT
               !.torrent = Listed(h, category),
               !.checks = IF worker.pc = "idle" THEN @ + 1 ELSE @,
               !.pc = IF _is_processed(disk, h) THEN "idle" ELSE "process",
               !.last = IF _is_processed(disk, h) THEN "skipped" ELSE @]
    /\ UNCHANGED <<disk, stack, runner, nextRunId, faults, host, operator, fs, writer, remote, ensured, stream, call>>

\* _process_torrent: no files, ffmpeg failing, the move raising, the cleanup
\* of the source or the removal of the torrent raising after the move, or
\* success; worker.moved holds the hashes whose output shutil.move relocated
ProcessTorrent ==
    /\ worker.pc = "process" /\ worker.alive
    /\ LET h == worker.torrent.hash IN
       \/ /\ disk' = _mark_processed(disk, h, "skipped_no_files")
          /\ worker' = [worker EXCEPT !.pc = "idle", !.last = "skipped_no_files"]
       \/ /\ disk' = _mark_processed(disk, h, "ffmpeg_failed")
          /\ worker' = [worker EXCEPT !.pc = "idle", !.last = "ffmpeg_failed",
                                      !.ffmpeg = @ \cup {h}]
       \/ /\ disk' = disk
          /\ worker' = [worker EXCEPT !.pc = "idle", !.last = "error",
                                      !.ffmpeg = @ \cup {h},
                                      !.errors = @ + 1,
                                     !.alive = run_forever(TRUE)]
       \/ /\ disk' = disk
          /\ worker' = [worker EXCEPT !.pc = "idle", !.last = "error",
                                      !.ffmpeg = @ \cup {h},
                                      !.moved = @ \cup {h},
                                      !.errors = @ + 1,
                                      !.alive = run_forever(TRUE)]
       \/ /\ disk' = _mark_processed(disk, h, "ok")
          /\ worker' = [worker EXCEPT !.pc = "idle", !.last = "ok",
                                      !.ffmpeg = @ \cup {h},
                                      !.moved = @ \cup {h}]
    /\ UNCHANGED <<stack, runner, nextRunId, faults, host, operator, fs, writer, remote, ensured, stream, call>>

WorkerLoop == TickFilter \/ TickIsProcessed \/ ProcessTorrent

\* ledgers on disk: nothing, or entries left for h1 and h2
Ledgers ==
    {[h \in Hashes |-> IF h = "h1" THEN a ELSE IF h = "h2" THEN b ELSE "absent"] :
        a \in LedgerStatuses \cup {"absent"}, b \in {"ok", "absent"}}

InitLedger ==
    /\ disk \in {FreshDisk} \cup
                {[FreshDisk EXCEPT !["pipeline"] = [exists |-> TRUE, data |-> l]] : l \in Ledgers}
    /\ stack = [status |-> "valid", cfg |-> [enabled |-> AllEnabled, qbpass |-> 1]]
    /\ runner = [r \in Runners |-> IdleRunner]
    /\ nextRunId = 1
    /\ faults = 0
    /\ host = "healthy"
    /\ operator = IdleOperator
    /\ worker = IdleWorker
    /\ EnsureIdle
    /\ CallIdle
    /\ CrashIdle

NextLedger == WorkerLoop \/ OperatorStep

\* run_forever is a "while True" loop: the worker always takes its next step
SpecLedger == InitLedger /\ [][NextLedger]_vars /\ WF_vars(WorkerLoop)

(***************************************************************************)
(* Two apply requests served by two threads of the request pool, on a host *)
(* where a port of the config is taken: both runs end at validate.         *)
(***************************************************************************)
RunnerStepToValidate(r) ==
    \/ ApplyStack(r) \/ StoreLoad(r) \/ StoreSave(r) \/ Diff(r)
    \/ ValidateStart(r) \/ ValidateRun(r) \/ FinalizeRun(r)

InitConc ==
    /\ disk = FreshDisk
    /\ stack \in {[status |-> "absent", cfg |-> NoConfig]}
                 \cup {[status |-> "valid", cfg |-> c] : c \in Configs}
    /\ runner = [r \in Runners |-> IdleRunner]
    /\ nextRunId = 1
    /\ faults = 0
    /\ host = "ports busy"
    /\ operator = IdleOperator
    /\ worker = IdleWorker
    /\ EnsureIdle
    /\ CallIdle
    /\ CrashIdle

NextConc == \E r \in Runners : RunnerStepToValidate(r)

SpecConc == InitConc /\ [][NextConc]_vars

(***************************************************************************)
(* One section file under _atomic_write and _load_section, with the        *)
(* process killed at any point of the write (storage.py).                  *)
(***************************************************************************)
\* documents json.dumps produces, as token sequences
Docs == { <<"{", "}">>, <<"{", "a", "}">>, <<"{", "a", "{", "b", "}", "}">> }

FileOf(content) == [exists |-> TRUE, content |-> content]

\* nesting depth after each token
Depth(content) ==
    LET d[i \in 0..Len(content)] ==
            IF i = 0 THEN 0
            ELSE d[i - 1] + (CASE content[i] = "{" -> 1
                               [] content[i] = "}" -> -1
                               [] OTHER -> 0)
    IN d

\* json.loads accepts the content: one object, closed by its last token
json_loads_ok(content) ==
    /\ Len(content) >= 2
    /\ content[1] = "{"
    /\ \A i \in 1..(Len(content) - 1) : Depth(content)[i] >= 1
    /\ Depth(content)[Len(content)] = 0

\* _try_recover_json: cut after the brace that brings the depth back to 0
_try_recover_json(content) ==
    LET closes == {i \in 1..Len(content) : content[i] = "}" /\ Depth(content)[i] = 0}
        end_pos == IF closes = {} THEN 0
                   ELSE CHOOSE i \in closes : \A j \in closes : i <= j
    IN IF end_pos > 0 /\ json_loads_ok(SubSeq(content, 1, end_pos))
       THEN FileOf(SubSeq(content, 1, end_pos))
       ELSE NoFile

\* the path the content is written to: the file tempfile.mkstemp created
\* next to the section file
tmp_path_in_place == "target"

tmp_path == "tmp"

SetWriter(pc) == writer' = [writer EXCEPT !.pc = pc]

StoreVars ==
    <<disk, stack, runner, nextRunId, faults, host, operator, worker, remote, ensured,
      stream, call>>

\* _save_section(section, data) up to mkstemp: an empty temp file exists
AtomicWriteBegin ==
    /\ writer.pc \in {"idle", "loaded"}
    /\ \E doc \in Docs :
         writer' = [writer EXCEPT !.pc = "writing", !.pre = fs["target"],
                                  !.post = FileOf(doc), !.at = "", !.loaded = NoFile]
    /\ fs' = [fs EXCEPT ![tmp_path] = FileOf(<<>>)]
    /\ UNCHANGED StoreVars

\* f.write(content): the content reaches the file a piece at a time
AtomicWriteChunk ==
    /\ writer.pc = "writing"
    /\ Len(fs[tmp_path].content) < Len(writer.post.content)
    /\ fs' = [fs EXCEPT ![tmp_path].content =
                 Append(@, writer.post.content[Len(@) + 1])]
    /\ UNCHANGED <<writer, StoreVars>>

\* f.flush(); os.fsync(f.fileno())
AtomicWriteFsync ==
    /\ writer.pc = "writing"
    /\ fs[tmp_path].content = writer.post.content
    /\ SetWriter("synced")
    /\ UNCHANGED <<fs, StoreVars>>

\* os.replace(tmp_path, path)
AtomicWriteReplace ==
    /\ writer.pc = "synced"
    /\ fs' = IF tmp_path = "target" THEN fs
             ELSE [fs EXCEPT !["target"] = fs[tmp_path], ![tmp_path] = NoFile]
    /\ SetWriter("replaced")
    /\ UNCHANGED StoreVars

\* _atomic_write returns
AtomicWriteReturn ==
    /\ writer.pc = "replaced"
    /\ SetWriter("idle")
    /\ UNCHANGED <<fs, StoreVars>>

\* the write raises (disk full): the temp file is unlinked and the error re-raised
AtomicWriteError ==
    /\ writer.pc = "writing"
    /\ fs' = [fs EXCEPT ![tmp_path] = NoFile]
    /\ SetWriter("idle")
    /\ UNCHANGED StoreVars

\* the process is killed; the files stay as they are
Crash ==
    /\ writer.pc \in {"writing", "synced", "replaced"}
    /\ writer' = [writer EXCEPT !.pc = "crashed", !.at = writer.pc]
    /\ UNCHANGED <<fs, StoreVars>>

\* _load_section after the restart
LoadAfterRestart ==
    /\ writer.pc = "crashed"
    /\ LET path == fs["target"] IN
       IF ~path.exists
       THEN /\ writer' = [writer EXCEPT !.pc = "loaded", !.loaded = NoFile]
            /\ fs' = fs
       ELSE IF json_loads_ok(path.content)
       THEN /\ writer' = [writer EXCEPT !.pc = "loaded", !.loaded = path]
            /\ fs' = fs
       ELSE LET recovered == _try_recover_json(path.content) IN
            IF recovered.exists
            THEN /\ writer' = [writer EXCEPT !.pc = "loaded", !.loaded = recovered]
                 /\ fs' = [fs EXCEPT !["corrupted"] = path, !["target"] = recovered]
            ELSE /\ writer' = [writer EXCEPT !.pc = "loaded", !.loaded = NoFile]
                 /\ fs' = fs
    /\ UNCHANGED StoreVars

InitCrash ==
    /\ disk = FreshDisk
    /\ stack = [status |-> "absent", cfg |-> NoConfig]
    /\ runner = [r \in Runners |-> IdleRunner]
    /\ nextRunId = 1
    /\ faults = 0
    /\ host = "healthy"
    /\ operator = IdleOperator
    /\ worker = IdleWorker
    /\ EnsureIdle
    /\ CallIdle
    /\ fs \in {[f \in {"target", "tmp", "corrupted"} |->
                  IF f = "target" THEN t ELSE NoFile] : t \in {NoFile} \cup {FileOf(d) : d \in Docs}}
    /\ writer = IdleWriter

NextCrash ==
    \/ AtomicWriteBegin \/ AtomicWriteChunk \/ AtomicWriteFsync \/ AtomicWriteReplace
    \/ AtomicWriteReturn \/ AtomicWriteError \/ Crash \/ LoadAfterRestart

SpecCrash == InitCrash /\ [][NextCrash]_vars

(***************************************************************************)
(* Properties of one apply request (specification Spec).                   *)
(***************************************************************************)
\* the services that depend on s, directly or through other services
Descendants(s) ==
    LET direct(S) == {t \in ServiceNames : SERVICE_DEPENDENCIES(t) \cap S # {}}
        d1 == direct({s})
        d2 == d1 \cup direct(d1)
    IN d2 \cup direct(d2)

SkippedDependency(e) ==
    e.status = "failed" /\ e.detail = "skipped (dependency failed)"

\* C1 (as stated): when ensure of s fails, every direct or transitive dependent
\* of s emits "skipped (dependency failed)" and its client is not invoked.
C1_AllDescendantsSkipped ==
    \A r \in Runners : \A j \in 1..Len(runner[r].cevents) :
        \A s \in runner[r].failed :
            SERVICE_DEPENDENCY_ORDER[j] \in Descendants(s) =>
                /\ SkippedDependency(runner[r].cevents[j])
                /\ SERVICE_DEPENDENCY_ORDER[j] \notin runner[r].invoked

\* C1 (amended): when ensure of s fails, every ENABLED service that has s among
\* its direct dependencies emits the failed event "skipped (dependency failed)"
\* and its client is not invoked; a disabled dependent emits ok
\* "skipped (disabled)" and does not pass the failure on.
C1_EnabledDependentsSkipped ==
    \A r \in Runners : \A j \in 1..Len(runner[r].cevents) :
        LET name == SERVICE_DEPENDENCY_ORDER[j] IN
        /\ (name \in runner[r].cfg.enabled
              /\ SERVICE_DEPENDENCIES(name) \cap runner[r].failed # {})
             => /\ SkippedDependency(runner[r].cevents[j])
                /\ name \notin runner[r].invoked
                /\ name \in runner[r].failed
        /\ name \notin runner[r].cfg.enabled
             => /\ runner[r].cevents[j].status = "ok"
                /\ runner[r].cevents[j].detail = "skipped (disabled)"
                /\ name \notin runner[r].failed

\* qbittorrent failed and the whole chain radarr, sonarr, prowlarr, jellyseerr was skipped
C1_Witness ==
    /\ Len(runner["r1"].cevents) = Len(SERVICE_DEPENDENCY_ORDER)
    /\ runner["r1"].cfg.enabled = AllEnabled
    /\ runner["r1"].invoked = {"qbittorrent", "jellyfin"}
    /\ \A j \in {2, 3, 4, 6} : SkippedDependency(runner["r1"].cevents[j])

Exited(r) == runner[r].pc \in {"done", "raised"}

\* C2: every started run is finalized with a terminal ok value (true or false)
\* before ApplyRunner.run exits, whatever a stage returns or raises.
C2_FinalizedOnExit ==
    \A r \in Runners :
        Exited(r) =>
            /\ get_run_found(disk, runner[r].run_id)
            /\ get_run(disk, runner[r].run_id).ok \in {"true", "false"}

StartedBefore(events, k) ==
    \E j \in 1..(k - 1) :
        events[j].stage = events[k].stage /\ events[j].status = "started"

Terminal(e) == e.status \in {"ok", "failed"}

\* the stages run() brackets with a started event
BracketedStages ==
    {"validate", "render", "prepare.conflicts", "deploy.compose"}
        \cup {"wait." \o s : s \in ClientNames}

\* every event list of a run: the runner's own list and the persisted ones
EventLists ==
    {runner[r].events : r \in Runners}
        \cup {disk["runs"].data[i].events : i \in 1..Len(disk["runs"].data)}

StoreCallDone(r) == runner[r].loaded /\ ~runner'[r].loaded

OperatorSaved == operator.pc = "save" /\ operator'.pc = "idle"

WorkerTicked == worker'.ticks # worker.ticks

\* the sections a store call is aimed at
TargetSections(op) ==
    CASE op.kind \in {"start_run", "append", "finalize"} -> {"runs"}
      [] op.kind = "secrets" -> {"secrets"}
      [] op.kind = "ensure" /\ op.svc = "qbittorrent" -> {"secrets"}
      [] op.kind = "ensure" /\ op.svc \in ArrClients -> {"secrets", "services"}
      [] OTHER -> {}

Untouched(sections) == \A s \in sections : disk'[s] = disk[s]

\* C4: a write that targets one state section never changes or rolls back the
\* content of another section, however the writers interleave their
\* load/modify/save sequences.
C4_SectionsIndependent ==
    [][ /\ \A r \in Runners :
              StoreCallDone(r) => Untouched(_STATE_SECTIONS \ TargetSections(runner[r].op))
        /\ OperatorSaved => Untouched(_STATE_SECTIONS \ {"secrets"})
        /\ WorkerTicked => Untouched(_STATE_SECTIONS \ {"pipeline"}) ]_vars

\* start_run of the run of r has returned
Started(r) == runner[r].pc # "idle" /\ runner[r].op.kind # "start_run"

\* the events of r whose append_run_event has returned
Recorded(r) ==
    IF runner[r].op.kind = "append"
    THEN SubSeq(runner[r].events, 1, Len(runner[r].events) - 1)
    ELSE runner[r].events

\* C5: at every point during a run, get_run returns exactly the events the
\* runner has recorded so far, in the order produced (none lost, duplicated or
\* reordered).
C5_PersistedIsRecorded ==
    \A r \in Runners :
        Started(r) =>
            /\ get_run_found(disk, runner[r].run_id)
            /\ get_run(disk, runner[r].run_id).events = Recorded(r)

\* C6: the stored run log never holds more than MAX_RUN_HISTORY (20) records,
\* after any sequence of start_run, append_run_event and finalize_run calls.
C6_RunLogBounded == Len(disk["runs"].data) <= MAX_RUN_HISTORY

\* the step is a write of secret key k: the operator's credentials update, or
\* the apply writing the credentials of the submitted config
ExplicitWrite(k) ==
    /\ k = "qbittorrent.password"
    /\ \/ OperatorSaved
       \/ \E r \in Runners :
             /\ StoreCallDone(r)
             /\ \/ runner[r].op.kind = "secrets"
                \/ runner[r].op.kind = "ensure" /\ runner[r].op.svc = "qbittorrent"

\* C8: a key written to the secrets section stays present with its last written
\* value in every later state unless it is explicitly rewritten; no other write
\* of the runner, a client or the worker removes or reverts it.
C8_SecretsKept ==
    [][ \A k \in SecretKeys :
            (disk["secrets"].data[k] # 0 /\ ~ExplicitWrite(k))
                => disk'["secrets"].data[k] = disk["secrets"].data[k] ]_vars

Running(r) == runner[r].pc \notin {"idle", "done", "raised"}

\* C9: at most one apply run executes at a time against a config store: a second
\* apply never runs its stages or store writes while the first is in progress.
C9_OneApplyAtATime == Cardinality({r \in Runners : Running(r)}) <= 1

(***************************************************************************)
(* Properties of the section write (specification SpecCrash).              *)
(***************************************************************************)
\* C7: for a crash at any point during a section write, including between the
\* temp file's fsync and the rename, loading the section after restart returns
\* exactly the pre-write or exactly the post-write content, never a truncated
\* document, and no .corrupted file is produced.
C7_CrashAtomic ==
    /\ ~fs["corrupted"].exists
    /\ fs["target"].exists => fs["target"].content \in Docs
    /\ writer.pc = "loaded" => writer.loaded \in {writer.pre, writer.post}
    /\ (writer.pc = "loaded" /\ writer.at = "replaced") => writer.loaded = writer.post

\* killed between fsync and os.replace while overwriting a document with
\* another: the load returned the old one
C7_Witness ==
    /\ writer.pc = "loaded" /\ writer.at = "synced"
    /\ writer.pre.exists /\ writer.pre # writer.post
    /\ writer.loaded = writer.pre
    /\ fs["tmp"] = writer.post

(***************************************************************************)
(* SpecEnsure: the same config applied twice in a row against the live     *)
(* services; of each apply, the ensure and the verify phase.               *)
(***************************************************************************)
EnsureAt(name) ==
    /\ ensured.pc = "ensure" /\ ensured.i <= Len(EnsureOrder)
    /\ EnsureOrder[ensured.i] = name
    /\ stack.status = "valid"

\* ServiceConfigurator.ensure records the outcome and goes to the next service
Ensured(name, changed, success) ==
    ensured' = [ensured EXCEPT
        !.i = @ + 1,
        !.pc = IF ensured.i = Len(EnsureOrder) THEN "verify" ELSE @,
        !.failed = IF success THEN @ ELSE @ \cup {name},
        !.outcomes[ensured.run][name] =
            [called |-> TRUE, changed |-> changed, success |-> success]]

\* the client is called and answers
ClientAnswers(name, outcome) ==
    /\ NoFault
    /\ remote' = outcome.remote
    /\ disk' = save_state(disk, outcome.state)
    /\ Ensured(name, outcome.changed, outcome.success)

EnsureQBittorrent ==
    /\ EnsureAt("qbittorrent")
    /\ \/ ClientAnswers("qbittorrent",
             QBittorrentClient_ensure(remote, load_state(disk), stack.cfg))
       \* httpx.RequestError at the first request
       \/ /\ Fault
          /\ UNCHANGED <<remote, disk>>
          /\ Ensured("qbittorrent", FALSE, FALSE)
    /\ UNCHANGED <<stack, runner, nextRunId, host, operator, worker, fs, writer, stream, call>>

\* a service whose dependency failed in this apply is not called
EnsureBlocked ==
    /\ \E name \in EnsureServices :
         /\ EnsureAt(name)
         /\ _get_blocked_dependencies(name, ensured.failed) # {}
         /\ Ensured(name, FALSE, FALSE)
    /\ UNCHANGED <<disk, stack, runner, nextRunId, faults, host, operator, worker, fs,
                   writer, remote, stream, call>>

EnsureRadarr ==
    /\ EnsureAt("radarr")
    /\ _get_blocked_dependencies("radarr", ensured.failed) = {}
    /\ \/ ClientAnswers("radarr", RadarrClient_ensure(remote, load_state(disk), stack.cfg))
       \* the API key is stored, then the first request fails
       \/ /\ Fault
          /\ remote' = remote
          /\ disk' = save_state(disk, arr_store_key(load_state(disk), "radarr"))
          /\ Ensured("radarr", FALSE, FALSE)
    /\ UNCHANGED <<stack, runner, nextRunId, host, operator, worker, fs, writer, stream, call>>

EnsureSonarr ==
    /\ EnsureAt("sonarr")
    /\ _get_blocked_dependencies("sonarr", ensured.failed) = {}
    /\ \/ ClientAnswers("sonarr", SonarrClient_ensure(remote, load_state(disk), stack.cfg))
       \* the API key is stored, then Sonarr is not ready or the first request fails
       \/ /\ Fault
          /\ remote' = remote
          /\ disk' = save_state(disk, arr_store_key(load_state(disk), "sonarr"))
          /\ Ensured("sonarr", FALSE, FALSE)
    /\ UNCHANGED <<stack, runner, nextRunId, host, operator, worker, fs, writer, stream, call>>

\* ServiceConfigurator.verify: every client that has a verify is asked
VerifyServices ==
    /\ ensured.pc = "verify"
    /\ ensured' = [ensured EXCEPT
          !.pc = "applied",
          !.verified[ensured.run] =
              [s \in EnsureServices |->
                  CASE s = "qbittorrent" ->
                          IF QBittorrentClient_verify(remote) THEN "ok" ELSE "failed"
                    [] s = "sonarr" ->
                          IF SonarrClient_verify(remote, load_state(disk))
                          THEN "ok" ELSE "failed"
                    [] OTHER -> "ok"]]
    /\ remote' = served(remote, verify_requests)
    /\ UNCHANGED <<disk, stack, runner, nextRunId, faults, host, operator, worker, fs,
                   writer, stream, call>>

\* the same config is applied again
ApplyAgain ==
    /\ ensured.pc = "applied" /\ ensured.run = 1
    /\ ensured' = [ensured EXCEPT !.run = 2, !.pc = "ensure", !.i = 1, !.failed = {}]
    /\ UNCHANGED <<disk, stack, runner, nextRunId, faults, host, operator, worker, fs,
                   writer, remote, stream, call>>

\* what the services can hold before the first apply
Remotes ==
    {[categories |-> c, qb_password |-> p,
      radarr_roots |-> rr, radarr_dl |-> rd,
      sonarr_ui |-> ui, sonarr_roots |-> sr, sonarr_dl |-> sd] :
        c \in {[name \in DOMAIN CategoryPaths |-> "absent"], CategoryPaths,
               [CategoryPaths EXCEPT !["tv"] = "/downloads"]},
        p \in Passwords,
        rr \in {{}, {"/data/media/movies"}},
        rd \in {NoClient,
                DownloadClient("qbittorrent", qbittorrent_port, "movies", qbittorrent_username),
                DownloadClient("qbittorrent", qbittorrent_port, "tv", qbittorrent_username),
                DownloadClient("qbittorrent", qbittorrent_port, "movies", "guest")},
        ui \in BOOLEAN,
        sr \in {{}, {"/data/media/tv"}, {"/data/media/tv", "/data/media/anime"}},
        sd \in {NoClient,
                DownloadClient("qbittorrent", INTERNAL_PORT, "tv", qbittorrent_username),
                DownloadClient("qbittorrent", INTERNAL_PORT, "tv", "guest"),
                DownloadClient("qbittorrent", "9090", "tv", qbittorrent_username)}}

\* the services section: absent, or what an earlier SonarrClient.ensure stored
StoredServices ==
    {NoSection("services")} \cup
    {[exists |-> TRUE, data |-> {"sonarr", download_client_password(p)}] : p \in Passwords}

InitEnsure ==
    /\ remote \in Remotes
    /\ \E sv \in StoredServices :
         disk = [FreshDisk EXCEPT
                    !["secrets"] = [exists |-> TRUE,
                                    data |-> [EmptyData("secrets") EXCEPT
                                       !["qbittorrent.password"] = remote.qb_password]],
                    !["services"] = sv]
         \* fresh: nothing was ever configured on the services or stored
         /\ ensured = [IdleEnsured EXCEPT
                          !.fresh = /\ remote = [NoRemote EXCEPT !.qb_password = remote.qb_password]
                                    /\ ~sv.exists]
    /\ stack = [status |-> "valid", cfg |-> [enabled |-> AllEnabled, qbpass |-> 1]]
    /\ runner = [r \in Runners |-> IdleRunner]
    /\ nextRunId = 1
    /\ faults = 0
    /\ host = "healthy"
    /\ operator = IdleOperator
    /\ worker = IdleWorker
    /\ CrashIdle
    /\ CallIdle

NextEnsure ==
    \/ EnsureQBittorrent \/ EnsureBlocked \/ EnsureRadarr \/ EnsureSonarr
    \/ VerifyServices \/ ApplyAgain

SpecEnsure == InitEnsure /\ [][NextEnsure]_vars

(***************************************************************************)
(* SpecStream: one apply request and one consumer of its event stream      *)
(* (GET /api/runs/{run_id}/events).                                        *)
(***************************************************************************)
\* a server-sent event
SSE(event, data) == [event |-> event, data |-> data]

\* the consumer subscribes to a run the run log holds
Subscribe ==
    /\ stream.pc = "idle"
    /\ \E run_id \in 1..(nextRunId - 1) :
         /\ get_run_found(disk, run_id)
         /\ stream' = [IdleStream EXCEPT !.pc = "open", !.run_id = run_id]
    /\ UNCHANGED <<disk, stack, runner, nextRunId, faults, host, operator, worker, fs,
                   writer, remote, ensured, call>>

\* one iteration of event_generator's loop: the record is read, the stage
\* events not sent yet are sent, then the status when the run has one
event_generator ==
    /\ stream.pc = "open"
    /\ IF ~get_run_found(disk, stream.run_id)
       THEN stream' = [stream EXCEPT
               !.pc = "closed",
               !.out = Append(@, SSE("error", "run_not_found"))]
       ELSE LET record == get_run(disk, stream.run_id)
                unsent == IF stream.sent < Len(record.events)
                          THEN SubSeq(record.events, stream.sent + 1, Len(record.events))
                          ELSE <<>>
                stages == [i \in 1..Len(unsent) |-> SSE("stage", unsent[i])]
            IN IF record.ok # "none"
               THEN stream' = [stream EXCEPT
                       !.pc = "closed",
                       !.sent = @ + Len(unsent),
                       !.out = (@ \o stages) \o
                           <<SSE("status", [ok |-> record.ok, summary |-> record.summary])>>]
               ELSE stream' = [stream EXCEPT
                       !.sent = @ + Len(unsent),
                       !.out = @ \o stages]
    /\ UNCHANGED <<disk, stack, runner, nextRunId, faults, host, operator, worker, fs,
                   writer, remote, ensured, call>>

NextStream == RunnerStep("r1") \/ Subscribe \/ event_generator

SpecStream == Init /\ [][NextStream]_vars

(***************************************************************************)
(* SpecSecret: ConfigRepository.ensure_secret applied to the state dict a  *)
(* caller loaded, with the caller's load_state and save_state around it.   *)
(***************************************************************************)
\* ensure_secret(state, service, key, generator); generator is the value the
\* generator returns when it is called
ensure_secret(state, key, generator) ==
    LET s1    == setdefault(state, "secrets")
        value == s1["secrets"].data[key]
    IN IF value = 0
       THEN [value |-> generator, generated |-> TRUE,
             state |-> [s1 EXCEPT !["secrets"].data[key] = generator]]
       ELSE [value |-> value, generated |-> FALSE, state |-> s1]

\* a caller (a request, or the process after a restart) loads the state
SecretLoad ==
    /\ call.state # load_state(disk)
    /\ call' = [call EXCEPT !.state = load_state(disk)]
    /\ UNCHANGED <<disk, stack, runner, nextRunId, faults, host, operator, worker, fs,
                   writer, remote, ensured, stream>>

\* the caller asks for a secret; the generator hands out a value never used before
SecretEnsure ==
    /\ call.next <= MaxGenerated
    /\ \E key \in SecretKeys :
         LET result == ensure_secret(call.state, key, call.next) IN
         call' = [call EXCEPT
            !.state = result.state,
            !.next = IF result.generated THEN @ + 1 ELSE @,
            !.invoked[key] = IF result.generated THEN @ + 1 ELSE @,
            !.returned[key] = @ \cup {result.value}]
    /\ UNCHANGED <<disk, stack, runner, nextRunId, faults, host, operator, worker, fs,
                   writer, remote, ensured, stream>>

\* the caller saves the state it holds
SecretSave ==
    /\ save_state(disk, call.state) # disk
    /\ disk' = save_state(disk, call.state)
    /\ UNCHANGED <<stack, runner, nextRunId, faults, host, operator, worker, fs,
                   writer, remote, ensured, stream, call>>

InitSecret ==
    /\ disk = FreshDisk
    /\ call = [fn |-> "ensure_secret", state |-> load_state(disk), next |-> 1,
               invoked |-> [k \in SecretKeys |-> 0],
               returned |-> [k \in SecretKeys |-> {}]]
    /\ stack = [status |-> "absent", cfg |-> NoConfig]
    /\ runner = [r \in Runners |-> IdleRunner]
    /\ nextRunId = 1
    /\ faults = 0
    /\ host = "healthy"
    /\ operator = IdleOperator
    /\ worker = IdleWorker
    /\ EnsureIdle
    /\ stream = IdleStream
    /\ CrashIdle

NextSecret == SecretLoad \/ SecretEnsure \/ SecretSave

SpecSecret == InitSecret /\ [][NextSecret]_vars

(***************************************************************************)
(* SpecPopulate: ProwlarrClient.ensure in several applies in a row, as far *)
(* as the first-run auto-population of indexers goes.                      *)
(***************************************************************************)
\* the indexer definitions of Prowlarr's schema catalog
Indexers == {"i1", "i2"}

\* prowlarr_state["indexers_populated"] in the services section
indexers_populated == "prowlarr.indexers_populated"

\* auto_populate_indexers: candidates that exist are skipped, the others are
\* posted; rejects are the definitions whose POST answers with an HTTP error.
\* A connection error or an error of the catalog request gives three empty lists.
auto_populate_indexers(existing, candidates, rejects, reachable) ==
    IF ~reachable
    THEN [added |-> {}, skipped |-> {}, failed |-> {}, existing |-> existing]
    ELSE [added    |-> (candidates \ existing) \ rejects,
          skipped  |-> candidates \cap existing,
          failed   |-> (candidates \ existing) \cap rejects,
          existing |-> existing \cup (candidates \ rejects)]

\* an auto-population that never looks at the gate flag
ProwlarrClient_ensure_ungated(state, prowlarr, rejects, reachable) ==
    LET s1  == arr_store_key(state, "prowlarr")
        pop == auto_populate_indexers(prowlarr.existing, prowlarr.candidates,
                                      rejects, reachable.indexers)
    IN [success |-> reachable.status, ran |-> reachable.status, pop |-> pop,
        existing |-> pop.existing,
        state |-> IF pop.added # {} \/ pop.skipped # {}
                  THEN [s1 EXCEPT !["services"].data = @ \cup {indexers_populated}]
                  ELSE s1]

\* ProwlarrClient.ensure: the API key is stored and saved, then the service is
\* provisioned; the auto-population runs when the flag is not set, and the flag
\* is set and saved when something was added or skipped
ProwlarrClient_ensure(state, prowlarr, rejects, reachable) ==
    LET s1   == arr_store_key(state, "prowlarr")
        gate == indexers_populated \in s1["services"].data
        pop  == auto_populate_indexers(prowlarr.existing, prowlarr.candidates,
                                       rejects, reachable.indexers)
        flag == pop.added # {} \/ pop.skipped # {}
    IN IF ~reachable.status
       THEN [success |-> FALSE, ran |-> FALSE, pop |-> auto_populate_indexers({}, {}, {}, FALSE),
             existing |-> prowlarr.existing, state |-> s1]
       ELSE IF gate
       THEN [success |-> TRUE, ran |-> FALSE, pop |-> auto_populate_indexers({}, {}, {}, FALSE),
             existing |-> prowlarr.existing, state |-> s1]
       ELSE [success |-> TRUE, ran |-> TRUE, pop |-> pop, existing |-> pop.existing,
             state |-> IF flag
                       THEN [s1 EXCEPT !["services"].data = @ \cup {indexers_populated}]
                       ELSE s1]

\* one apply reaches configure.prowlarr
PopulateApply ==
    /\ call.applies < MaxApplies
    /\ \E rejects \in SUBSET Indexers, status \in BOOLEAN, indexers \in BOOLEAN :
         LET outcome == ProwlarrClient_ensure(load_state(disk), call, rejects,
                            [status |-> status, indexers |-> indexers])
         IN /\ disk' = save_state(disk, outcome.state)
            /\ call' = [call EXCEPT
                  !.applies = @ + 1,
                  !.existing = outcome.existing,
                  !.runs = IF outcome.ran THEN @ + 1 ELSE @,
                  !.ran = outcome.ran,
                  !.added = outcome.pop.added,
                  !.skipped = outcome.pop.skipped,
                  !.failed = outcome.pop.failed]
    /\ UNCHANGED <<stack, runner, nextRunId, faults, host, operator, worker, fs,
                   writer, remote, ensured, stream>>

InitPopulate ==
    /\ disk = FreshDisk
    /\ \E candidates \in SUBSET Indexers, existing \in SUBSET Indexers :
         call = [fn |-> "ProwlarrClient.ensure", candidates |-> candidates,
                 existing |-> existing, applies |-> 0, runs |-> 0, ran |-> FALSE,
                 added |-> {}, skipped |-> {}, failed |-> {}]
    /\ stack = [status |-> "absent", cfg |-> NoConfig]
    /\ runner = [r \in Runners |-> IdleRunner]
    /\ nextRunId = 1
    /\ faults = 0
    /\ host = "healthy"
    /\ operator = IdleOperator
    /\ worker = IdleWorker
    /\ EnsureIdle
    /\ stream = IdleStream
    /\ CrashIdle

NextPopulate == PopulateApply

SpecPopulate == InitPopulate /\ [][NextPopulate]_vars

(***************************************************************************)
(* SpecValidate: run_validation applied to the service ports of a config,  *)
(* and the validate stage of run() that follows it.                        *)
(***************************************************************************)
\* the services whose ports the configs of this part set
PortServices == {"qbittorrent", "radarr", "sonarr"}

\* host ports a config can name; 0 is a port that is not set
HostPorts == {8080, 7878}

\* the loop of run_validation over config.services: the check of one service
port_check(config, name, busy, owned) ==
    LET port == config.port[name] IN
    IF name \notin config.enabled THEN "skipped"
    ELSE IF port = 0 THEN "not_set"
    ELSE IF port \notin busy THEN "ok"
    ELSE IF name \in owned THEN "in_use_by_stack"
    ELSE "in_use"

\* run_validation, as far as the service ports go; busy are the ports something
\* listens on, owned the services whose own container holds their port
run_validation(config, busy, owned) ==
    LET checks == [name \in PortServices |-> port_check(config, name, busy, owned)]
    IN [ok |-> \A name \in PortServices : checks[name] \notin {"not_set", "in_use"},
        checks |-> checks]

\* run(): the validate stage ends the run when the validation is not ok
ValidateStage ==
    /\ call.pc = "validate"
    /\ LET validation == run_validation(call.config, call.busy, call.owned) IN
       call' = [call EXCEPT
          !.validation = validation,
          !.pc = IF validation.ok THEN "prepare.paths" ELSE "finalized"]
    /\ UNCHANGED <<disk, stack, runner, nextRunId, faults, host, operator, worker, fs,
                   writer, remote, ensured, stream>>

InitValidate ==
    /\ \E port \in [PortServices -> HostPorts \cup {0}], enabled \in SUBSET PortServices,
          busy \in SUBSET HostPorts, owned \in SUBSET PortServices :
         \* a container of the stack holds its port only when the port is in use
         /\ \A name \in owned : port[name] \in busy
         /\ call = [fn |-> "run_validation", pc |-> "validate",
                    config |-> [port |-> port, enabled |-> enabled],
                    busy |-> busy, owned |-> owned,
                    validation |-> [ok |-> FALSE,
                                    checks |-> [name \in PortServices |-> "none"]]]
    /\ disk = FreshDisk
    /\ stack = [status |-> "absent", cfg |-> NoConfig]
    /\ runner = [r \in Runners |-> IdleRunner]
    /\ nextRunId = 1
    /\ faults = 0
    /\ host = "healthy"
    /\ operator = IdleOperator
    /\ worker = IdleWorker
    /\ EnsureIdle
    /\ stream = IdleStream
    /\ CrashIdle

NextValidate == ValidateStage

SpecValidate == InitValidate /\ [][NextValidate]_vars

(***************************************************************************)
(* SpecRetry: retry_request applied to a function whose answers the        *)
(* environment chooses call by call.                                       *)
(***************************************************************************)
DEFAULT_MAX_RETRIES == 3
\* seconds
DEFAULT_BACKOFF_BASE == 1
DEFAULT_BACKOFF_MAX == 30

RETRYABLE_EXCEPTIONS ==
    {"ConnectError", "ConnectTimeout", "ReadTimeout", "WriteTimeout", "PoolTimeout"}

RETRYABLE_STATUS_CODES == {500, 502, 503, 504, 520, 521, 522, 523, 524}

\* what one invocation of the wrapped function can do: return a response, raise
\* httpx.HTTPStatusError, or raise another httpx exception
Answers ==
    {[kind |-> "response", status |-> st] : st \in {200, 404, 501, 503}}
    \cup {[kind |-> "HTTPStatusError", status |-> st] : st \in {403, 502, 524}}
    \cup {[kind |-> e, status |-> 0] : e \in {"ConnectError", "ReadTimeout", "ReadError"}}

\* a delay that grows by one base per attempt instead of doubling
_compute_delay_linear(attempt, base, cap) ==
    IF base * (attempt + 1) < cap THEN base * (attempt + 1) ELSE cap

\* _compute_delay: min(base * 2 ** attempt, cap)
_compute_delay(attempt, base, cap) ==
    IF base * (2 ^ attempt) < cap THEN base * (2 ^ attempt) ELSE cap

\* the answer is one retry_request retries while attempts are left
Retryable(answer) ==
    \/ answer.kind \in {"response", "HTTPStatusError"}
          /\ answer.status \in RETRYABLE_STATUS_CODES
    \/ answer.kind \in RETRYABLE_EXCEPTIONS

IdleRetry ==
    [fn |-> "retry_request", pc |-> "call", attempt |-> 0, invocations |-> 0,
     history |-> <<>>, delays |-> <<>>]

\* one pass of the loop of retry_request up to time.sleep, return or raise
RetryCall ==
    /\ call.pc = "call"
    /\ call.attempt <= DEFAULT_MAX_RETRIES
    /\ \E answer \in Answers :
         LET called == [call EXCEPT !.invocations = @ + 1,
                                    !.history = Append(@, answer)]
         IN call' =
              IF Retryable(answer) /\ call.attempt < DEFAULT_MAX_RETRIES
              THEN [called EXCEPT
                      !.pc = "sleep",
                      !.delays = Append(@, _compute_delay(call.attempt,
                                     DEFAULT_BACKOFF_BASE, DEFAULT_BACKOFF_MAX))]
              ELSE [called EXCEPT
                      !.pc = IF answer.kind = "response" THEN "returned" ELSE "raised"]
    /\ UNCHANGED <<disk, stack, runner, nextRunId, faults, host, operator, worker, fs,
                   writer, remote, ensured, stream>>

\* time.sleep(delay) is over: the next attempt
RetrySleep ==
    /\ call.pc = "sleep"
    /\ call' = [call EXCEPT !.pc = "call", !.attempt = @ + 1]
    /\ UNCHANGED <<disk, stack, runner, nextRunId, faults, host, operator, worker, fs,
                   writer, remote, ensured, stream>>

InitRetry ==
    /\ call = IdleRetry
    /\ disk = FreshDisk
    /\ stack = [status |-> "absent", cfg |-> NoConfig]
    /\ runner = [r \in Runners |-> IdleRunner]
    /\ nextRunId = 1
    /\ faults = 0
    /\ host = "healthy"
    /\ operator = IdleOperator
    /\ worker = IdleWorker
    /\ EnsureIdle
    /\ stream = IdleStream
    /\ CrashIdle

NextRetry == RetryCall \/ RetrySleep

SpecRetry == InitRetry /\ [][NextRetry]_vars

(***************************************************************************)
(* SpecDiff: compute_diff applied to two configs.  A config is the part of *)
(* StackConfig below; a dumped config is a tree of dicts whose leaves hold *)
(* the JSON text of the value.                                             *)
(***************************************************************************)
\* None for a path or a string, and for a port
NoPath == ""
NoPort == 0

DiffConfigs ==
    [paths : [pool : {"/mnt/pool", "/srv/pool"}, scratch : {NoPath, "/mnt/scratch"},
              appdata : {"/mnt/appdata", "/srv/appdata"}],
     services : [radarr : [enabled : BOOLEAN, port : {NoPort, 7878}]],
     media_policy : [movies : [keep_audio : {<<"eng", "und">>, <<"und", "eng">>}]]]

DictNode(items) == [kind |-> "dict", items |-> items]
LeafNode(value) == [kind |-> "leaf", value |-> value]

\* the JSON values of model_dump(mode="json")
json_str(value) == IF value = NoPath THEN "null" ELSE "\"" \o value \o "\""
json_int(value) == IF value = NoPort THEN "null" ELSE ToString(value)
json_bool(value) == IF value THEN "true" ELSE "false"

RECURSIVE json_items(_)
json_items(list) ==
    IF list = <<>> THEN ""
    ELSE json_str(Head(list)) \o (IF Len(list) > 1 THEN "," ELSE "") \o json_items(Tail(list))

json_list(list) == "[" \o json_items(list) \o "]"

\* config.model_dump(mode="json")
model_dump(config) ==
    [paths |-> DictNode(
        [pool |-> LeafNode(json_str(config.paths.pool)),
         scratch |-> LeafNode(json_str(config.paths.scratch)),
         appdata |-> LeafNode(json_str(config.paths.appdata))]),
     services |-> DictNode(
        [radarr |-> DictNode(
            [enabled |-> LeafNode(json_bool(config.services.radarr.enabled)),
             port |-> LeafNode(json_int(config.services.radarr.port))])]),
     media_policy |-> DictNode(
        [movies |-> DictNode(
            [keep_audio |-> LeafNode(json_list(config.media_policy.movies.keep_audio))])])]

NoLeaves == [path \in {} |-> ""]

\* a flattening that names a leaf by its last key only
RECURSIVE _flatten_unprefixed(_, _)
_flatten_unprefixed(d, prefix) ==
    IF DOMAIN d = {} THEN NoLeaves
    ELSE LET key  == CHOOSE k \in DOMAIN d : TRUE
             rest == [k \in DOMAIN d \ {key} |-> d[k]]
             here == IF d[key].kind = "dict"
                     THEN _flatten_unprefixed(d[key].items, key)
                     ELSE key :> d[key].value
         IN here @@ _flatten_unprefixed(rest, prefix)

\* _flatten: dot-separated path -> value; a list is a leaf.  The keys are taken
\* one by one (the order of d.items() does not matter: no two paths are equal)
RECURSIVE _flatten(_, _)
_flatten(d, prefix) ==
    IF DOMAIN d = {} THEN NoLeaves
    ELSE LET key  == CHOOSE k \in DOMAIN d : TRUE
             rest == [k \in DOMAIN d \ {key} |-> d[k]]
             path == IF prefix # "" THEN prefix \o "." \o key ELSE key
             here == IF d[key].kind = "dict"
                     THEN _flatten(d[key].items, path)
                     ELSE path :> d[key].value
         IN here @@ _flatten(rest, prefix)

\* leaves.get(path)
leaf_get(leaves, path) == IF path \in DOMAIN leaves THEN leaves[path] ELSE "null"

_ALL_MEDIA_SERVICES ==
    {"qbittorrent", "radarr", "sonarr", "prowlarr", "jellyfin", "jellyseerr", "pipeline"}

Impact(restart, reconfigure) == [restart |-> restart, reconfigure |-> reconfigure]

\* CHANGE_IMPACT: config path prefix -> the services to restart and to reconfigure
CHANGE_IMPACT ==
    ( "paths.pool" :> Impact(_ALL_MEDIA_SERVICES, {}) )
    @@ ( "paths.scratch" :> Impact({"qbittorrent", "pipeline"}, {}) )
    @@ ( "paths.appdata" :>
            Impact({"qbittorrent", "radarr", "sonarr", "prowlarr", "jellyfin", "jellyseerr"}, {}) )
    @@ ( "services.qbittorrent.port" :> Impact({"qbittorrent"}, {"radarr", "sonarr"}) )
    @@ ( "services.radarr.port" :> Impact({"radarr"}, {"prowlarr", "jellyseerr"}) )
    @@ ( "services.sonarr.port" :> Impact({"sonarr"}, {"prowlarr", "jellyseerr"}) )
    @@ ( "services.qbittorrent.enabled" :> Impact({"qbittorrent"}, {"radarr", "sonarr"}) )
    @@ ( "services.radarr.enabled" :> Impact({"radarr"}, {"prowlarr", "jellyseerr"}) )
    @@ ( "services.sonarr.enabled" :> Impact({"sonarr"}, {"prowlarr", "jellyseerr"}) )
    @@ ( "download_policy" :> Impact({}, {"qbittorrent", "radarr", "sonarr"}) )
    @@ ( "media_policy" :> Impact({}, {"pipeline"}) )
    @@ ( "quality" :> Impact({}, {"radarr", "sonarr"}) )
    @@ ( "proxy" :> Impact(_ALL_MEDIA_SERVICES, {}) )
    @@ ( "runtime" :> Impact(_ALL_MEDIA_SERVICES, {}) )
    @@ ( "ui.port" :> Impact({}, {}) )

\* ".".join(parts)
RECURSIVE join(_)
join(parts) ==
    IF Len(parts) = 1 THEN parts[1] ELSE parts[1] \o "." \o join(Tail(parts))

\* the keys of a dumped config, and the key sequences a path can split into
ConfigKeys ==
    {"paths", "pool", "scratch", "appdata", "services", "radarr", "enabled", "port",
     "media_policy", "movies", "keep_audio"}

\* path.split("."): no key holds a dot, so the parts are the keys joined
split(path) ==
    CHOOSE parts \in UNION {[1..n -> ConfigKeys] : n \in 1..3} : join(parts) = path

\* _resolve_impact: the rule of the longest prefix of the path that has one
_resolve_impact(path) ==
    LET parts == split(path)
        rules == {i \in 1..Len(parts) : join(SubSeq(parts, 1, i)) \in DOMAIN CHANGE_IMPACT}
    IN IF rules = {} THEN Impact({}, {})
       ELSE CHANGE_IMPACT[join(SubSeq(parts, 1,
                CHOOSE i \in rules : \A j \in rules : j <= i))]

\* compute_diff: the changes, one per path whose two values are not equal (the
\* list is sorted by path), and the services their impact rules name; a
\* service to restart is not also one to reconfigure
compute_diff(old, new) ==
    LET old_leaves == _flatten(model_dump(old), "")
        new_leaves == _flatten(model_dump(new), "")
        all_paths  == DOMAIN old_leaves \cup DOMAIN new_leaves
        changed    == {q \in all_paths : leaf_get(old_leaves, q) # leaf_get(new_leaves, q)}
        restart    == UNION {_resolve_impact(path).restart : path \in changed}
        reconfigure == UNION {_resolve_impact(path).reconfigure : path \in changed}
    IN [changes |->
          {[path |-> path, old_value |-> leaf_get(old_leaves, path),
            new_value |-> leaf_get(new_leaves, path)] : path \in changed},
        services_to_restart |-> restart,
        services_to_reconfigure |-> reconfigure \ restart]

\* preview: the stored config is compared with the submitted one
DiffCompute ==
    /\ call.pc = "input"
    /\ call' = [call EXCEPT !.pc = "done", !.diff = compute_diff(call.old, call.new)]
    /\ UNCHANGED <<disk, stack, runner, nextRunId, faults, host, operator, worker, fs,
                   writer, remote, ensured, stream>>

InitDiff ==
    /\ \E old \in DiffConfigs, new \in DiffConfigs :
         call = [fn |-> "compute_diff", pc |-> "input", old |-> old, new |-> new,
                 diff |-> [changes |-> {}, services_to_restart |-> {},
                           services_to_reconfigure |-> {}]]
    /\ disk = FreshDisk
    /\ stack = [status |-> "absent", cfg |-> NoConfig]
    /\ runner = [r \in Runners |-> IdleRunner]
    /\ nextRunId = 1
    /\ faults = 0
    /\ host = "healthy"
    /\ operator = IdleOperator
    /\ worker = IdleWorker
    /\ EnsureIdle
    /\ stream = IdleStream
    /\ CrashIdle

NextDiff == DiffCompute

SpecDiff == InitDiff /\ [][NextDiff]_vars

(***************************************************************************)
(* build_ffmpeg_command (pipeline/remux.py), specification SpecRemux.  A   *)
(* stream is what ffprobe reports of it: its index in the file (the video  *)
(* stream is index 0), its codec type, its language tag (NoLanguage when   *)
(* the tag is missing) and its forced disposition.  The function probes    *)
(* the file twice, and each probe fails on its own.                        *)
(***************************************************************************)
MaxStreams == 3

NoLanguage == ""

StreamKinds ==
    [codec_type : {"audio"}, language : {"eng", "JPN", "fra", NoLanguage}, forced : {FALSE}]
        \cup [codec_type : {"subtitle"}, language : {"eng", "fra"}, forced : BOOLEAN]

\* the ffprobe listings of files with one video stream and up to MaxStreams others
StreamLists ==
    UNION {{[i \in 1..n |-> [index |-> i, codec_type |-> kinds[i].codec_type,
                             language |-> kinds[i].language, forced |-> kinds[i].forced]] :
                kinds \in [1..n -> StreamKinds]} : n \in 1..MaxStreams}

AudioPolicies == {<<>>, <<"eng">>, <<"ENG", " eng">>, <<"jpn">>, <<"eng", "jpn">>}

SubtitlePolicies == {<<"eng">>, <<"eng", "forced">>}

\* str.lower().strip() on the strings of the model
lower_strip(s) ==
    CASE s = "ENG"  -> "eng"
      [] s = " eng" -> "eng"
      [] s = "JPN"  -> "jpn"
      [] OTHER      -> s

stream_language(strm) ==
    lower_strip(IF strm.language = NoLanguage THEN "und" ELSE strm.language)

_normalized(languages) ==
    {lower_strip(languages[i]) : i \in 1..Len(languages)} \ {""}

NoStreamInfo == [ok |-> FALSE, original_language |-> NoLanguage]

probe_streams(probe, streams) ==
    IF probe # "ok" THEN NoStreamInfo
    ELSE LET audio == {i \in 1..Len(streams) : streams[i].codec_type = "audio"}
         IN  [ok |-> TRUE,
              original_language |->
                  IF audio = {} THEN NoLanguage
                  ELSE stream_language(streams[CHOOSE i \in audio : \A j \in audio : i <= j])]

stream_spec(idx) ==
    CASE idx = 1 -> "0:1"
      [] idx = 2 -> "0:2"
      [] idx = 3 -> "0:3"
      [] idx = 4 -> "0:4"
      [] OTHER   -> "0:0"

RECURSIVE map_streams(_, _, _, _, _)
map_streams(streams, codec_type, keep, keep_untagged, keep_forced) ==
    IF streams = <<>> THEN <<>>
    ELSE LET strm == Head(streams)
             lang   == stream_language(strm)
         IN  (IF /\ strm.codec_type = codec_type
                 /\ \/ lang \in keep
                    \/ keep_untagged /\ lang = "und"
                    \/ keep_forced /\ strm.forced
              THEN <<"-map", stream_spec(strm.index)>>
              ELSE <<>>)
                 \o map_streams(Tail(streams), codec_type, keep, keep_untagged, keep_forced)

\* build_ffmpeg_command that keeps the policy's audio languages only
build_ffmpeg_command_policy_only(streams, selection, probe1, probe2) ==
    LET keep_sub_langs      == _normalized(selection.subtitles)
        include_forced_subs == "forced" \in keep_sub_langs
        keep_audio_langs    == _normalized(selection.audio)
    IN  <<"ffmpeg", "-hide_banner", "-y", "-i", "source", "-map", "0:v:0?">>
            \o (IF probe2 = "ok"
                THEN map_streams(streams, "audio", keep_audio_langs, TRUE, FALSE)
                         \o map_streams(streams, "subtitle", keep_sub_langs \ {"forced"},
                                        FALSE, include_forced_subs)
                ELSE <<"-map", "0:a?", "-map", "0:s?">>)
            \o <<"-c", "copy", "destination">>

build_ffmpeg_command(streams, selection, probe1, probe2) ==
    LET stream_info         == probe_streams(probe1, streams)
        keep_sub_langs      == _normalized(selection.subtitles)
        include_forced_subs == "forced" \in keep_sub_langs
        keep_audio_langs    ==
            _normalized(selection.audio)
                \cup (IF stream_info.ok /\ stream_info.original_language # NoLanguage
                      THEN {lower_strip(stream_info.original_language)} ELSE {})
    IN  <<"ffmpeg", "-hide_banner", "-y", "-i", "source", "-map", "0:v:0?">>
            \o (IF probe2 = "ok"
                THEN map_streams(streams, "audio", keep_audio_langs, TRUE, FALSE)
                         \o map_streams(streams, "subtitle", keep_sub_langs \ {"forced"},
                                        FALSE, include_forced_subs)
                ELSE <<"-map", "0:a?", "-map", "0:s?">>)
            \o <<"-c", "copy", "destination">>

RemuxBuild ==
    /\ call.fn = "build_ffmpeg_command" /\ call.pc = "input"
    /\ call' = [call EXCEPT !.pc = "done",
                            !.args = build_ffmpeg_command(call.streams, call.selection,
                                                          call.probe1, call.probe2)]
    /\ UNCHANGED <<disk, stack, runner, nextRunId, faults, host, operator, worker, fs,
                   writer, remote, ensured, stream>>

InitRemux ==
    /\ \E streams \in StreamLists, audio \in AudioPolicies, subtitles \in SubtitlePolicies,
          probe1 \in {"ok", "failed"}, probe2 \in {"ok", "failed"} :
         call = [fn |-> "build_ffmpeg_command", pc |-> "input", streams |-> streams,
                 selection |-> [audio |-> audio, subtitles |-> subtitles],
                 probe1 |-> probe1, probe2 |-> probe2, args |-> <<>>]
    /\ disk = FreshDisk
    /\ stack = [status |-> "absent", cfg |-> NoConfig]
    /\ runner = [r \in Runners |-> IdleRunner]
    /\ nextRunId = 1
    /\ faults = 0
    /\ host = "healthy"
    /\ operator = IdleOperator
    /\ worker = IdleWorker
    /\ EnsureIdle
    /\ stream = IdleStream
    /\ CrashIdle

NextRemux == RemuxBuild

SpecRemux == InitRemux /\ [][NextRemux]_vars

(***************************************************************************)
(* _ensure_migrated (storage.py), specification SpecMigrate: the first     *)
(* access to a store that holds only the legacy state.json.  The section   *)
(* files are disk, as everywhere; the legacy file, the process flag        *)
(* _migrated and the position inside the migration are fields of call.     *)
(* The process may crash between two file operations and be restarted:     *)
(* the files stay, _migrated is False again.                               *)
(***************************************************************************)
MaxCrashes == 1

\* the order of the tuple _STATE_SECTIONS
SectionOrder == <<"secrets", "services", "runs", "pipeline">>

\* what a legacy state.json holds of a section
LegacyData(section) ==
    CASE section = "secrets"  -> [EmptyData("secrets") EXCEPT !["qbittorrent.password"] = 1]
      [] section = "services" -> {"radarr"}
      [] section = "runs"     -> OldRuns(1)
      [] section = "pipeline" -> [EmptyData("pipeline") EXCEPT !["h1"] = "ok"]

\* the legacy files: any non-empty choice of sections
LegacyStates ==
    {[s \in _STATE_SECTIONS |->
         IF s \in present THEN [exists |-> TRUE, data |-> LegacyData(s)] ELSE NoSection(s)] :
        present \in (SUBSET _STATE_SECTIONS) \ {{}}}

\* any(p.exists() for p in self._section_paths.values())
has_section_files(d) == \E s \in _STATE_SECTIONS : d[s].exists

\* _ensure_migrated up to the loop over the sections
MigrateStart ==
    /\ call.fn = "_ensure_migrated" /\ call.pc = "start"
    /\ call' = [call EXCEPT
          !._migrated = TRUE,
          !.i = 1,
          !.pc = IF call._migrated THEN "load"
                 ELSE IF has_section_files(disk) THEN "load"
                 ELSE IF ~call.legacy_exists THEN "load"
                 ELSE "split"]
    /\ UNCHANGED <<disk, stack, runner, nextRunId, faults, host, operator, worker, fs,
                   writer, remote, ensured, stream>>

\* one round of the loop: _save_section of the next section the legacy file holds
MigrateSection ==
    /\ call.fn = "_ensure_migrated" /\ call.pc = "split"
    /\ IF call.i <= Len(SectionOrder)
       THEN LET section == SectionOrder[call.i] IN
            /\ disk' = IF call.legacy[section].exists
                       THEN [disk EXCEPT ![section] = call.legacy[section]]
                       ELSE disk
            /\ call' = [call EXCEPT !.i = @ + 1]
       ELSE /\ disk' = disk
            /\ call' = [call EXCEPT !.pc = "rename"]
    /\ UNCHANGED <<stack, runner, nextRunId, faults, host, operator, worker, fs,
                   writer, remote, ensured, stream>>

\* os.replace(state.json, state.json.migrated); an OSError is logged
MigrateRename ==
    /\ call.fn = "_ensure_migrated" /\ call.pc = "rename"
    /\ \E renamed \in BOOLEAN :
         call' = [call EXCEPT !.pc = "load",
                              !.legacy_exists = IF renamed THEN FALSE ELSE @]
    /\ UNCHANGED <<disk, stack, runner, nextRunId, faults, host, operator, worker, fs,
                   writer, remote, ensured, stream>>

\* load_state after _ensure_migrated returned
MigrateLoad ==
    /\ call.fn = "_ensure_migrated" /\ call.pc = "load"
    /\ call' = [call EXCEPT !.pc = "loaded", !.state = load_state(disk)]
    /\ UNCHANGED <<disk, stack, runner, nextRunId, faults, host, operator, worker, fs,
                   writer, remote, ensured, stream>>

\* the process dies inside the migration and is started again
MigrateCrash ==
    /\ call.fn = "_ensure_migrated" /\ call.pc \in {"split", "rename"}
    /\ call.crashes < MaxCrashes
    /\ call' = [call EXCEPT !.pc = "start", !._migrated = FALSE, !.crashes = @ + 1]
    /\ UNCHANGED <<disk, stack, runner, nextRunId, faults, host, operator, worker, fs,
                   writer, remote, ensured, stream>>

InitMigrate ==
    /\ \E legacy \in LegacyStates :
         call = [fn |-> "_ensure_migrated", pc |-> "start", legacy |-> legacy,
                 legacy_exists |-> TRUE, _migrated |-> FALSE, i |-> 1, crashes |-> 0,
                 state |-> EmptyState]
    /\ disk = FreshDisk
    /\ stack = [status |-> "absent", cfg |-> NoConfig]
    /\ runner = [r \in Runners |-> IdleRunner]
    /\ nextRunId = 1
    /\ faults = 0
    /\ host = "healthy"
    /\ operator = IdleOperator
    /\ worker = IdleWorker
    /\ EnsureIdle
    /\ stream = IdleStream
    /\ CrashIdle

NextMigrate == MigrateStart \/ MigrateSection \/ MigrateRename \/ MigrateLoad \/ MigrateCrash

SpecMigrate == InitMigrate /\ [][NextMigrate]_vars

(***************************************************************************)
(* ProwlarrClient.ensure around _provision (clients/prowlarr.py),          *)
(* specification SpecRefresh: the API key of the secrets section, the key  *)
(* config.xml holds when ensure reads it first and when it reads it again  *)
(* after an authentication failure, and Prowlarr's answers to the first    *)
(* and to the retried provisioning.  Keys are numbers, 0 for no key.       *)
(***************************************************************************)
ApiKeys == 1..2

ProvisionAnswers == {"ok", "401", "403", "500", "unreachable"}

\* ensure from the first read of config.xml on, with Radarr and Sonarr keys
\* present; saved is the API key save_state has written when ensure returns
ProwlarrClient_ensure_provision(stored, config_key, refreshed_key, first, retry) ==
    LET early == IF stored # config_key THEN config_key ELSE stored
        base  == [success |-> FALSE, raised |-> FALSE, provisions |-> 1, saved |-> early]
    IN  CASE first = "ok" -> [base EXCEPT !.success = TRUE]
          [] first \in {"401", "403"} ->
               IF refreshed_key # 0 /\ refreshed_key # config_key
               THEN CASE retry = "unreachable" ->
                           [base EXCEPT !.provisions = 2, !.raised = TRUE]
                      [] OTHER -> [base EXCEPT !.provisions = 2]
               ELSE base
          [] OTHER -> base

RefreshApply ==
    /\ call.fn = "ProwlarrClient._provision" /\ call.pc = "input"
    /\ call' = [call EXCEPT !.pc = "done",
                  !.outcome = ProwlarrClient_ensure_provision(
                                  call.stored, call.config_key, call.refreshed_key,
                                  call.first, call.retry)]
    /\ UNCHANGED <<disk, stack, runner, nextRunId, faults, host, operator, worker, fs,
                   writer, remote, ensured, stream>>

InitRefresh ==
    /\ \E stored \in {0} \cup ApiKeys, config_key \in ApiKeys, refreshed_key \in ApiKeys,
          first \in ProvisionAnswers, retry \in ProvisionAnswers :
         call = [fn |-> "ProwlarrClient._provision", pc |-> "input", stored |-> stored,
                 config_key |-> config_key, refreshed_key |-> refreshed_key,
                 first |-> first, retry |-> retry,
                 outcome |-> [success |-> FALSE, raised |-> FALSE, provisions |-> 0,
                              saved |-> stored]]
    /\ disk = FreshDisk
    /\ stack = [status |-> "absent", cfg |-> NoConfig]
    /\ runner = [r \in Runners |-> IdleRunner]
    /\ nextRunId = 1
    /\ faults = 0
    /\ host = "healthy"
    /\ operator = IdleOperator
    /\ worker = IdleWorker
    /\ EnsureIdle
    /\ stream = IdleStream
    /\ CrashIdle

NextRefresh == RefreshApply

SpecRefresh == InitRefresh /\ [][NextRefresh]_vars

(***************************************************************************)
(* Sessions (auth.py, app.py), specification SpecAuth.  Every request gets *)
(* an AuthManager over the state auth_middleware loads from the store;     *)
(* call.sessions is the session list of the auth section on disk,          *)
(* call.issued the sessions that login responses handed out, call.now the  *)
(* clock in units of the session timeout's granularity.                    *)
(***************************************************************************)
MaxLogins == 2
MaxClock == 3
\* SESSION_TIMEOUT_HOURS, in ticks of the clock
SessionTimeout == 2

SessionOf(token, now) == [token |-> token, expires_at |-> now + SessionTimeout]

\* AuthManager.authenticate: the session list of the manager after the call and
\* the session returned (none when the password is wrong)
authenticate(sessions, password_ok, token, now) ==
    IF password_ok
    THEN [sessions |-> sessions \cup {SessionOf(token, now)}, session |-> {SessionOf(token, now)}]
    ELSE [sessions |-> sessions, session |-> {}]

\* AuthManager.validate_session
validate_session(sessions, token, now) ==
    \E s \in sessions : s.token = token /\ s.expires_at > now

\* POST /api/auth/login: the manager's state is dropped with the request
AuthLogin ==
    /\ call.fn = "auth" /\ call.logins < MaxLogins
    /\ \E password_ok \in BOOLEAN :
         LET manager == authenticate(call.sessions, password_ok, call.logins + 1, call.now) IN
         call' = [call EXCEPT !.logins = @ + 1,
                              !.issued = @ \cup manager.session,
                              !.last = [token |-> 0, at |-> call.now, accepted |-> FALSE,
                                        kind |-> "login"]]
    /\ UNCHANGED <<disk, stack, runner, nextRunId, faults, host, operator, worker, fs,
                   writer, remote, ensured, stream>>

\* a request behind require_auth that presents a token
AuthRequest ==
    /\ call.fn = "auth"
    /\ \E token \in 0..MaxLogins :
         call' = [call EXCEPT
            !.last = [token |-> token, at |-> call.now,
                      accepted |-> validate_session(call.sessions, token, call.now),
                      kind |-> "request"]]
    /\ UNCHANGED <<disk, stack, runner, nextRunId, faults, host, operator, worker, fs,
                   writer, remote, ensured, stream>>

\* POST /api/auth/logout: require_auth, then revoke_session on the manager of
\* the request
AuthLogout ==
    /\ call.fn = "auth"
    /\ \E token \in 0..MaxLogins :
         LET ok == validate_session(call.sessions, token, call.now) IN
         call' = [call EXCEPT
            !.revoked = IF ok THEN @ \cup {token} ELSE @,
            !.last = [token |-> token, at |-> call.now, accepted |-> ok, kind |-> "logout"]]
    /\ UNCHANGED <<disk, stack, runner, nextRunId, faults, host, operator, worker, fs,
                   writer, remote, ensured, stream>>

AuthClock ==
    /\ call.fn = "auth" /\ call.now < MaxClock
    /\ call' = [call EXCEPT !.now = @ + 1]
    /\ UNCHANGED <<disk, stack, runner, nextRunId, faults, host, operator, worker, fs,
                   writer, remote, ensured, stream>>

InitAuth ==
    /\ \E sessions \in {{}, {SessionOf(0, 0)}} :
         call = [fn |-> "auth", sessions |-> sessions, issued |-> {}, revoked |-> {},
                 logins |-> 0, now |-> 0,
                 last |-> [token |-> 0, at |-> 0, accepted |-> FALSE, kind |-> "none"]]
    /\ disk = FreshDisk
    /\ stack = [status |-> "absent", cfg |-> NoConfig]
    /\ runner = [r \in Runners |-> IdleRunner]
    /\ nextRunId = 1
    /\ faults = 0
    /\ host = "healthy"
    /\ operator = IdleOperator
    /\ worker = IdleWorker
    /\ EnsureIdle
    /\ stream = IdleStream
    /\ CrashIdle

NextAuth == AuthLogin \/ AuthRequest \/ AuthLogout \/ AuthClock

SpecAuth == InitAuth /\ [][NextAuth]_vars

(***************************************************************************)
(* Properties of the worker loop (specification SpecLedger).               *)
(***************************************************************************)
Ledger == disk["pipeline"].data

\* the step is _is_processed answering "already processed" for the listed torrent
SkippedStep ==
    /\ worker' # worker /\ worker.pc # "process"
    /\ worker'.pc = "idle" /\ worker'.last = "skipped"

\* the step is the category filter deciding about the listed torrent
FilterStep ==
    /\ worker' # worker /\ worker.pc = "idle"
    /\ \/ worker'.pc = "check"
       \/ worker'.pc = "idle" /\ worker'.last \in {"error", "filtered"}

\* the step hands the listed torrent to _process_torrent
SelectedStep == worker.pc # "process" /\ worker'.pc = "process"

PolicyLabels == {"movies", "tv", "anime"}

\* C13: a completed torrent is selected for processing exactly when its category
\* is one of the configured labels (movie, TV, anime) and its hash is not in the
\* ledger; a torrent of another category, the empty one included, is not.
C13_SelectedByCategory ==
    [][ /\ FilterStep =>
              ((worker'.pc = "check") <=> (worker'.torrent.category \in PolicyLabels))
        /\ SelectedStep => Ledger[worker'.torrent.hash] = "absent" ]_vars

\* C14: no exception raised while processing a tick escapes the worker loop;
\* the loop goes on to the next tick, so the worker handles every torrent the
\* bound allows.
C14_LoopSurvives ==
    /\ [](worker.alive)
    /\ <>(worker.checks = MaxChecks /\ worker.pc = "idle")

\* every tick the bound allows raised in the category filter, and the loop is
\* still running
C14_Witness ==
    /\ worker.alive /\ worker.checks = MaxChecks /\ worker.pc = "idle"
    /\ worker.errors = MaxChecks /\ worker.ffmpeg = {}

\* C35: with the pipeline enabled and the torrent client reachable, a tick that
\* lists a completed torrent of a download-policy category whose hash is not in
\* the ledger takes it up for processing (towards its ok entry) instead of
\* ending in the same error on every tick.
C35_CompletedIsTakenUp ==
    [][ ( /\ FilterStep
          /\ worker'.torrent.category \in {DownloadCategories[f] : f \in DOMAIN DownloadCategories}
          /\ Ledger[worker'.torrent.hash] = "absent" )
            => (worker'.pc = "check" /\ worker'.errors = worker.errors) ]_vars

ConfigureStages == {"configure." \o s : s \in ServiceNames}

\* C15: if any configure.<service> event of a run has status failed, the run's
\* terminal status is ok=false.
C15_ConfigureFailureFailsRun ==
    \A r \in Runners :
        (/\ runner[r].pc = "done"
         /\ \E k \in 1..Len(runner[r].events) :
               /\ runner[r].events[k].stage \in ConfigureStages
               /\ runner[r].events[k].status = "failed")
            => runner[r].result = "false"

\* C16: the verify phase produces exactly one verify.<service> event for every
\* service of the fixed order, whatever happened to the services before it.
C16_VerifyCoversAll ==
    [][ \A r \in Runners :
          (runner[r].pc = "verify" /\ runner'[r].pc # "verify") =>
             /\ Len(runner'[r].vevents) = Len(SERVICE_DEPENDENCY_ORDER)
             /\ \A i \in 1..Len(SERVICE_DEPENDENCY_ORDER) :
                   runner'[r].vevents[i].stage = "verify." \o SERVICE_DEPENDENCY_ORDER[i] ]_vars

\* C17: whether or not the conflicting dev containers could be stopped,
\* prepare.conflicts records a terminal event (ok or warning) and the run goes
\* on with deploy.compose.
C17_ConflictsNeverEndRun ==
    [][ \A r \in Runners :
          (runner[r].pc = "prepare.conflicts.run" /\ runner'[r].pc # "prepare.conflicts.run") =>
             /\ runner'[r].pc = "deploy.compose"
             /\ runner'[r].events # <<>>
             /\ LET last == runner'[r].events[Len(runner'[r].events)] IN
                   last.stage = "prepare.conflicts" /\ last.status \in {"ok", "warning"} ]_vars

FatalStages ==
    {"validate", "prepare.paths", "prepare.proxy", "render", "persist", "deploy.compose"}
        \cup {"wait." \o s : s \in ClientNames}

\* the run ended in a stage before configuration, prepare.conflicts apart
EndedBeforeConfigure(r) ==
    /\ Exited(r) /\ runner[r].events # <<>> /\ runner[r].cevents = <<>>
    /\ runner[r].events[Len(runner[r].events)] # StageEvent("prepare.conflicts", "started", "")

\* C18: when validate, prepare.paths, prepare.proxy, render, persist,
\* deploy.compose or a wait.<service> stage fails, the failed event of that stage
\* is the last event of the run and the run is finalized with ok=false.
C18_FatalStageEndsRun ==
    \A r \in Runners :
        EndedBeforeConfigure(r) =>
            LET last == runner[r].events[Len(runner[r].events)] IN
            /\ last.status = "failed" /\ last.stage \in FatalStages
            /\ get_run_found(disk, runner[r].run_id)
            /\ get_run(disk, runner[r].run_id).ok = "false"
            /\ get_run(disk, runner[r].run_id).events = runner[r].events

\* C19: computing and recording the diff never fails or aborts a run, whatever
\* the stored config is (absent, unreadable or invalid): the diff event is
\* recorded and the run proceeds to validate.
C19_DiffNeverFails ==
    [][ \A r \in Runners :
          (runner[r].pc = "diff" /\ runner'[r].pc # "diff") =>
             /\ runner'[r].pc = "validate"
             /\ runner'[r].events = <<StageEvent("diff", "ok", runner'[r].events[1].detail)>> ]_vars

(***************************************************************************)
(* Properties of two applies in a row (specification SpecEnsure).          *)
(***************************************************************************)
\* every verify event of the first apply is ok
FirstVerifiedOk == \A s \in EnsureServices : ensured.verified[1][s] = "ok"

\* C20: applying the same config twice in a row, when the first run reached
\* verified-ok no service's ensure in the second run reports changed=true.
C20_SecondApplyChangesNothing ==
    FirstVerifiedOk => \A s \in EnsureServices : ~ensured.outcomes[2][s].changed

\* C21: a fresh apply with every service enabled and empty state, where every
\* container starts and every service API behaves correctly, ends every
\* configure.<service> and every verify.<service> with ok.
C21_FreshApplyAllOk ==
    (ensured.fresh /\ faults = 0 /\ ensured.run = 1 /\ ensured.pc = "applied") =>
        \A s \in EnsureServices :
            ensured.outcomes[1][s].success /\ ensured.verified[1][s] = "ok"


(***************************************************************************)
(* Client contract properties                                             *)
(***************************************************************************)

\* C22: a service client's verify (like its ensure) never raises: whatever
\* the service answers, the call returns an outcome, so a step of the verify
\* loop never leaves the run in the raised state.
C22_ClientNeverRaises ==
    [][ \A r \in Runners :
          runner[r].pc = "verify" => runner'[r].pc # "raised" ]_vars


StagesReceived == SelectSeq(stream.out, LAMBDA e : e.event = "stage")

\* what was received is the beginning of the run's events, in order and once,
\* and a status event comes last and ends the stream
StreamInOrder ==
    /\ Len(StagesReceived) <= Len(runner["r1"].events)
    /\ \A i \in 1..Len(StagesReceived) : StagesReceived[i].data = runner["r1"].events[i]
    /\ \A i \in 1..Len(stream.out) :
          /\ stream.out[i].event # "error"
          /\ stream.out[i].event = "status" => (i = Len(stream.out) /\ stream.pc = "closed")

\* C24: a consumer subscribed to a run receives the run's stage events once
\* each and in order, then one terminal status event; for every started run
\* the stream ends with that status event: once the run has ended, the next
\* batch the consumer receives ends with the status and closes the stream.
C24_StreamEndsWithStatus ==
    /\ [](stream.pc # "idle" => StreamInOrder)
    /\ [][ (Exited("r1") /\ stream.pc = "open" /\ stream' # stream) =>
              /\ stream'.pc = "closed"
              /\ stream'.out[Len(stream'.out)].event = "status" ]_vars


(***************************************************************************)
(* Properties of ensure_secret (specification SpecSecret).                 *)
(***************************************************************************)
\* C25: ensure_secret returns the stored value when there is one, otherwise
\* generates a value and persists it: the generator is invoked at most once
\* per key and every call for a key returns the same value, also after the
\* state was loaded again.
C25_SecretGeneratedOnce ==
    \A key \in SecretKeys :
        /\ call.invoked[key] <= 1
        /\ Cardinality(call.returned[key]) <= 1


(***************************************************************************)
(* Properties of the download client (specification SpecEnsure).           *)
(***************************************************************************)
\* the download client a library manager must hold
DesiredClient(name) ==
    DownloadClient("qbittorrent", INTERNAL_PORT, DownloadCategories[name],
                   qbittorrent_username)

\* the download client a library manager holds
ClientOf(rem, name) == IF name = "radarr" THEN rem.radarr_dl ELSE rem.sonarr_dl

\* everything else the manager's ensure looks after is in place already
Settled(name) ==
    IF name = "radarr" THEN "/data/media/movies" \in remote.radarr_roots
    ELSE /\ remote.sonarr_ui
         /\ {"/data/media/tv", "/data/media/anime"} \subseteq remote.sonarr_roots
         /\ stored_download_client_password(load_state(disk)) # 0
         /\ stored_download_client_password(load_state(disk)) =
                qb_password(load_state(disk), stack.cfg)

\* C26: when a library manager's existing download client differs from the
\* desired one in port, category or credentials, a successful ensure updates
\* it in place; when it does not differ, ensure leaves it and sends no update.
C26_DriftIsRepaired ==
    [][ \A name \in {"radarr", "sonarr"} :
          ( /\ EnsureAt(name)
            /\ ensured'.outcomes[ensured.run][name].success
            /\ ClientOf(remote, name).present ) =>
              /\ ClientOf(remote, name) # DesiredClient(name) =>
                    ClientOf(remote', name) = DesiredClient(name)
              /\ (ClientOf(remote, name) = DesiredClient(name) /\ Settled(name)) =>
                    /\ ClientOf(remote', name) = ClientOf(remote, name)
                    /\ ~ensured'.outcomes[ensured.run][name].changed ]_vars


(***************************************************************************)
(* Properties of the indexer auto-population (specification SpecPopulate). *)
(***************************************************************************)
\* the gate flag as the services section file holds it
GateFlag(d) == indexers_populated \in load_state(d)["services"].data

\* C27: the auto-population runs once: when it succeeds (it added an indexer
\* or found one configured) the gate flag is set and persisted in the
\* services section, and an apply that finds the flag set does not execute
\* the auto-population again; a flag once set stays set.
C27_PopulatedOnce ==
    [][ call'.applies = call.applies + 1 =>
          /\ (call'.ran /\ (call'.added # {} \/ call'.skipped # {})) => GateFlag(disk')
          /\ GateFlag(disk) =>
                (~call'.ran /\ call'.runs = call.runs /\ call'.existing = call.existing
                    /\ GateFlag(disk')) ]_vars

\* a first apply populated the indexers and set the flag, a later apply ran
\* with the flag set
C27_Witness ==
    /\ call.fn = "ProwlarrClient.ensure"
    /\ call.applies >= 2 /\ call.runs = 1 /\ ~call.ran
    /\ GateFlag(disk)
    /\ call.candidates # {} /\ call.candidates \subseteq call.existing


(***************************************************************************)
(* Properties of the validation (specification SpecValidate).              *)
(***************************************************************************)
\* C28: no apply goes past validation with a config in which two enabled
\* services share a host port.
C28_DuplicatePortsRejected ==
    call.pc = "prepare.paths" =>
        \A a, b \in call.config.enabled :
            a # b => call.config.port[a] # call.config.port[b]


(***************************************************************************)
(* Properties of retry_request (specification SpecRetry).                  *)
(***************************************************************************)
\* the answer is an HTTP 4xx, returned or raised
ClientError(answer) == answer.status >= 400 /\ answer.status < 500

\* C29: a call is retried at most 3 times (4 invocations in all), the wait
\* before retry k (k = 0, 1, 2) is min(1 s * 2^k, 30 s), and a call that fails
\* with HTTP 4xx is not retried.
C29_RetryBounded ==
    call.fn = "retry_request" =>
        /\ call.invocations <= 4
        /\ Len(call.delays) <= 3
        /\ \A k \in 0..(Len(call.delays) - 1) :
              call.delays[k + 1] = IF 2 ^ k < 30 THEN 2 ^ k ELSE 30
        /\ \A i \in 1..Len(call.history) :
              ClientError(call.history[i]) =>
                  (i = Len(call.history) /\ call.pc \in {"returned", "raised"})

\* the call failed with a retryable error four times in a row and gave up
C29_Witness ==
    /\ call.fn = "retry_request"
    /\ call.pc = "raised" /\ call.invocations = 4
    /\ call.delays = <<1, 2, 4>>
    /\ \A i \in 1..4 : Retryable(call.history[i])


(***************************************************************************)
(* Properties of compute_diff (specification SpecDiff).                    *)
(***************************************************************************)
\* the leaf paths of a config, and whether two configs differ at one
LeafPaths ==
    {"paths.pool", "paths.scratch", "paths.appdata", "services.radarr.enabled",
     "services.radarr.port",
     "media_policy.movies.keep_audio"}

LeafDiffers(c, d, path) ==
    CASE path = "paths.pool"    -> c.paths.pool # d.paths.pool
      [] path = "paths.scratch" -> c.paths.scratch # d.paths.scratch
      [] path = "paths.appdata" -> c.paths.appdata # d.paths.appdata
      [] path = "services.radarr.enabled" ->
            c.services.radarr.enabled # d.services.radarr.enabled
      [] path = "services.radarr.port" -> c.services.radarr.port # d.services.radarr.port
      [] path = "media_policy.movies.keep_audio" ->
            c.media_policy.movies.keep_audio # d.media_policy.movies.keep_audio

\* C30: diff(c, c) has no changes, and diff(c, c') lists exactly the leaf paths
\* whose values differ between c and c'.
C30_DiffExact ==
    (call.fn = "compute_diff" /\ call.pc = "done") =>
        /\ {change.path : change \in call.diff.changes} =
              {path \in LeafPaths : LeafDiffers(call.old, call.new, path)}
        /\ call.old = call.new => call.diff.changes = {}

\* two configs that differ in some leaves and agree in others were compared
C30_Witness ==
    /\ call.fn = "compute_diff" /\ call.pc = "done"
    /\ Cardinality(call.diff.changes) = 3
    /\ call.old.services.radarr.port = NoPort /\ call.new.services.radarr.port # NoPort
    /\ call.old.media_policy.movies.keep_audio # call.new.media_policy.movies.keep_audio


\* C31: a change of a path root (paths.pool or paths.appdata) puts every
\* managed service among the services to restart.
C31_PathRootRestartsAll ==
    ( /\ call.fn = "compute_diff" /\ call.pc = "done"
      /\ \/ call.old.paths.pool # call.new.paths.pool
         \/ call.old.paths.appdata # call.new.paths.appdata ) =>
        _ALL_MEDIA_SERVICES \subseteq call.diff.services_to_restart


(***************************************************************************)
(* Properties of the terminal summary and the order of stages              *)
(* (specification Spec).                                                   *)
(***************************************************************************)
\* the stages a terminal summary identifies; the summaries of the wait and the
\* verify phase name the phase, not the service whose stage failed
StagesNamed(summary) ==
    CASE summary = "Validation failed"           -> {"validate"}
      [] summary = "Directory permissions error" -> {"prepare.paths"}
      [] summary = "Proxy preparation failed"    -> {"prepare.proxy"}
      [] summary = "Compose up failed"           -> {"deploy.compose"}
      [] OTHER                                   -> {}

\* C32: whenever a run is finalized with ok=false, its terminal summary names
\* the stage that failed; for a failed wait, configure or verify stage it
\* identifies the specific stage.
C32_SummaryNamesStage ==
    \A r \in Runners :
        (runner[r].pc = "done" /\ runner[r].result = "false") =>
            \E i \in 1..Len(runner[r].events) :
                /\ runner[r].events[i].status = "failed"
                /\ runner[r].events[i].stage \in StagesNamed(runner[r].finSummary)

\* the place of a stage in the order run() goes through
StageRank(stage) ==
    CASE stage = "diff"              -> 1
      [] stage = "validate"          -> 2
      [] stage = "prepare.paths"     -> 3
      [] stage = "prepare.proxy"     -> 4
      [] stage = "prepare.secrets"   -> 5
      [] stage = "render"            -> 6
      [] stage = "persist"           -> 7
      [] stage = "prepare.conflicts" -> 8
      [] stage = "deploy.compose"    -> 9
      [] stage \in {"wait." \o s : s \in ServiceNames}   -> 10
      [] stage \in ConfigureStages                       -> 11
      [] stage = "render.secrets"    -> 12
      [] stage \in {"verify." \o s : s \in ServiceNames} -> 13
      [] OTHER                       -> 0

\* C34: in every event list of a run (the list the runner returns and the list
\* persisted in the run record) no event of an earlier stage of the order
\* diff, validate, prepare.paths, prepare.proxy, prepare.secrets, render,
\* persist, prepare.conflicts, deploy.compose, wait.*, configure.*,
\* render.secrets, verify.* comes after an event of a later stage.
C34_StagesInOrder ==
    \A events \in EventLists :
        \A i \in 1..Len(events) : \A j \in i..Len(events) :
            /\ StageRank(events[i].stage) >= 1
            /\ StageRank(events[i].stage) <= StageRank(events[j].stage)

\* a run went through every phase, the refresh of the secret files included
C34_Witness ==
    \E r \in Runners :
        /\ runner[r].pc = "done"
        /\ \A k \in 1..13 :
              \E i \in 1..Len(runner[r].events) : StageRank(runner[r].events[i].stage) = k

(***************************************************************************)
(* Properties of the remux command (specification SpecRemux).              *)
(***************************************************************************)
Mapped(args, idx) ==
    \E i \in 1..(Len(args) - 1) : args[i] = "-map" /\ args[i + 1] = stream_spec(idx)

Probed == call.fn = "build_ffmpeg_command" /\ call.pc = "done"
              /\ call.probe1 = "ok" /\ call.probe2 = "ok"

OriginalLanguage == probe_streams("ok", call.streams).original_language

C37_MigrationKeepsSections ==
    (call.fn = "_ensure_migrated" /\ call.pc = "loaded") =>
        \A s \in _STATE_SECTIONS :
            call.legacy[s].exists => call.state[s] = call.legacy[s]

(***************************************************************************)
(* Properties of the API key refresh (specification SpecRefresh).          *)
(***************************************************************************)
\* C38: when the provisioning gets HTTP 401/403, config.xml then holds a
\* different API key and the retried provisioning succeeds, ensure returns
\* success=true and the refreshed key is the one persisted in the secrets
\* section; ensure provisions at most twice (one refresh-and-retry).
C38_RefreshedRetrySucceeds ==
    (call.fn = "ProwlarrClient._provision" /\ call.pc = "done") =>
        /\ call.outcome.provisions <= 2
        /\ ( /\ call.first \in {"401", "403"}
             /\ call.refreshed_key # call.config_key
             /\ call.retry = "ok" ) =>
               (call.outcome.success /\ call.outcome.saved = call.refreshed_key)

(***************************************************************************)
(* Properties of the sessions (specification SpecAuth).                    *)
(***************************************************************************)
\* C39: an authenticated request that presents a token a successful login
\* returned is accepted, as long as the session has not expired and has not
\* been revoked.
C39_IssuedTokenAccepted ==
    ( /\ call.fn = "auth" /\ call.last.kind = "request"
      /\ call.last.token \notin call.revoked
      /\ \E s \in call.issued : s.token = call.last.token /\ s.expires_at > call.last.at ) =>
          call.last.accepted

====
